---------------------------- MODULE Spec2Model ----------------------------
(***************************************************************************)
(* Mountain Goat VM (src/assembly.js): the Machine's fetch/execute state   *)
(* machine, the assembler (AssemblySyntax, AssemblyLanguage, DataType)     *)
(* and the statements it produces.                                         *)
(*                                                                         *)
(* JavaScript strings are sequences of one-character strings.  JavaScript  *)
(* arrays are sequences; the JavaScript index i is the sequence index      *)
(* i + 1.  The JavaScript values null and undefined are the records Null   *)
(* and Undefined; a null that stands where a string stands is NullString.  *)
(***************************************************************************)
EXTENDS Integers, Sequences, FiniteSets, TLC

VARIABLES
    registers,   \* Machine.registers
    statements,  \* Machine.#statements
    pc,          \* Machine.#pc
    mode,        \* "idle"; "running" while control is inside Machine.run;
                 \* "constructing", then "done", for the constructor of a Program
    before,      \* history: the Machine at the last call of append, step, setPC or run
    cycles,      \* history: iterations of the loop of the current run()
    lastOp,      \* history: the last operation called ("new" at first)
    arg,         \* history: the argument of the last call of append, setPC, REPL.run,
                 \* assembleStatement, parse or setRegister
    pcSets,      \* history: number of setPC calls made so far
    host,        \* who constructed the Machine: "Machine" (the caller), "REPL",
                 \* "Program"; "Language" for a caller that uses only the machine's
                 \* assemblyLanguage, the data types and the instruction specifications
    input,       \* Program.input
    output,      \* Program.output
    lineNo,      \* the index of the line the loop of Program.run is at
    returned,    \* what the last call of REPL.run, assembleStatement, parse or
                 \* setRegister returned or threw
    replCalls    \* history: number of REPL.run calls made so far

machineVars == <<registers, statements, pc>>
programVars == <<input, output, lineNo>>
replVars == <<returned, replCalls>>
vars == <<registers, statements, pc, mode, before, cycles, lastOp, arg, pcSets,
          host, input, output, lineNo, returned, replCalls>>

-----------------------------------------------------------------------------
(* Bounds of the model. *)

\* Most statements a Machine holds.
MaxStatements == 3
\* Most calls of setPC in one behaviour.
MaxPCSets == 1

\* Most calls of REPL.run in one behaviour.
MaxReplCalls == 3
\* Most lines of a Program's text.
MaxProgramLines == 3

\* Largest register count given to AssemblyInstruction.setRegister.
MaxRegisterCount == 3

\* Most iterations of the loop of run() that are followed.
MaxCycles == MaxStatements + 2

-----------------------------------------------------------------------------
(* JavaScript values. *)

Null == [null |-> TRUE]
NullString == << "<null>" >>
Undefined == [undefined |-> TRUE]

\* Error.machine: "Unknown instruction", "Invalid input type",
\* "Invalid instruction format", "Input outside valid range".
unknownInstruction ==
    <<"U","n","k","n","o","w","n"," ","i","n","s","t","r","u","c","t","i",
      "o","n">>
invalidInputType ==
    <<"I","n","v","a","l","i","d"," ","i","n","p","u","t"," ","t","y","p",
      "e">>
invalidInstructionFormat ==
    <<"I","n","v","a","l","i","d"," ","i","n","s","t","r","u","c","t","i",
      "o","n"," ","f","o","r","m","a","t">>
inputOutsideRange ==
    <<"I","n","p","u","t"," ","o","u","t","s","i","d","e"," ","v","a","l",
      "i","d"," ","r","a","n","g","e">>

\* The outcome of a call: a returned value, or a thrown error.
Return(v) == [threw |-> FALSE, value |-> v]
Throw(e) == [threw |-> TRUE, error |-> e]
\* An error thrown by a method of the machine, which is m at the throw.
ThrowFrom(e, m) == [threw |-> TRUE, error |-> e, machine |-> m]

-----------------------------------------------------------------------------
(* String primitives of JavaScript. *)

WhiteSpace == {" ", "\t"}

LowerLetters == <<"a","b","c","d","e","f","g","h","i","j","k","l","m",
                  "n","o","p","q","r","s","t","u","v","w","x","y","z">>
UpperLetters == <<"A","B","C","D","E","F","G","H","I","J","K","L","M",
                  "N","O","P","Q","R","S","T","U","V","W","X","Y","Z">>

\* String.prototype.toUpperCase, one character.
UpperChar(c) ==
    IF \E i \in 1..26 : LowerLetters[i] = c
    THEN UpperLetters[CHOOSE i \in 1..26 : LowerLetters[i] = c]
    ELSE c

toUpperCase(s) == [i \in 1..Len(s) |-> UpperChar(s[i])]

\* String.prototype.indexOf for a one-character pattern: 0-based, -1 if absent.
indexOf(s, c) ==
    IF \E i \in 1..Len(s) : s[i] = c
    THEN (CHOOSE i \in 1..Len(s) : s[i] = c /\ \A j \in 1..(i-1) : s[j] # c) - 1
    ELSE -1

\* String.prototype.substring(from) and substring(0, to), 0-based.
substringFrom(s, from) == SubSeq(s, from + 1, Len(s))
substringTo(s, to) == SubSeq(s, 1, to)

\* String.prototype.trim
trim(s) ==
    IF \A i \in 1..Len(s) : s[i] \in WhiteSpace
    THEN <<>>
    ELSE LET first == CHOOSE i \in 1..Len(s) :
                          s[i] \notin WhiteSpace /\ \A j \in 1..(i-1) : s[j] \in WhiteSpace
             last  == CHOOSE i \in 1..Len(s) :
                          s[i] \notin WhiteSpace /\ \A j \in (i+1)..Len(s) : s[j] \in WhiteSpace
         IN  SubSeq(s, first, last)

\* String.prototype.split(sep) for a one-character separator: the fragments
\* between separators, empty ones included.
RECURSIVE split(_, _)
split(s, sep) ==
    LET i == indexOf(s, sep)
    IN  IF i < 0 THEN <<s>>
        ELSE <<substringTo(s, i)>> \o split(substringFrom(s, i + 1), sep)

\* Array.prototype.join(sep) on an array of strings.
RECURSIVE join(_, _)
join(a, sep) ==
    IF a = <<>> THEN <<>>
    ELSE IF Len(a) = 1 THEN a[1]
    ELSE a[1] \o sep \o join(Tail(a), sep)

\* Array.prototype.filter(item => item.length > 0)
RECURSIVE filterNonEmpty(_)
filterNonEmpty(a) ==
    IF a = <<>> THEN <<>>
    ELSE IF Len(Head(a)) > 0 THEN <<Head(a)>> \o filterNonEmpty(Tail(a))
         ELSE filterNonEmpty(Tail(a))

DecimalDigits == <<"0","1","2","3","4","5","6","7","8","9">>
HexLetters == <<"a","b","c","d","e","f">>

\* The value of character c as a digit of radix r, or -1.
DigitValue(c, r) ==
    IF \E d \in 1..10 : DecimalDigits[d] = c
    THEN (CHOOSE d \in 1..10 : DecimalDigits[d] = c) - 1
    ELSE IF r = 16 /\ \E d \in 1..6 : UpperChar(HexLetters[d]) = UpperChar(c)
         THEN (CHOOSE d \in 1..6 : UpperChar(HexLetters[d]) = UpperChar(c)) + 9
         ELSE -1

\* The number of leading characters of s that are digits of radix r.
RECURSIVE DigitPrefixLen(_, _)
DigitPrefixLen(s, r) ==
    IF s = <<>> \/ DigitValue(Head(s), r) < 0 THEN 0
    ELSE 1 + DigitPrefixLen(Tail(s), r)

\* The mathematical value of the digit string z in radix r.
RECURSIVE DigitsValue(_, _)
DigitsValue(z, r) ==
    IF z = <<>> THEN 0
    ELSE DigitsValue(SubSeq(z, 1, Len(z) - 1), r) * r + DigitValue(z[Len(z)], r)

RECURSIVE trimStart(_)
trimStart(s) ==
    IF s # <<>> /\ Head(s) \in WhiteSpace THEN trimStart(Tail(s)) ELSE s

\* String(n) for an integer n.
RECURSIVE naturalToString(_)
naturalToString(n) ==
    IF n < 10 THEN <<DecimalDigits[n + 1]>>
    ELSE naturalToString(n \div 10) \o <<DecimalDigits[(n % 10) + 1]>>

numberToString(n) ==
    IF n < 0 THEN <<"-">> \o naturalToString(-n) ELSE naturalToString(n)

NaN == [nan |-> TRUE]
Number(n) == [nan |-> FALSE, n |-> n]

\* parseInt(string) with no radix argument (ECMAScript 19.2.5): leading white space
\* is skipped, a sign is read, a 0x or 0X prefix selects radix 16, and the longest
\* prefix of digits is the value; NaN when that prefix is empty.
parseInt(code) ==
    LET s0 == trimStart(code)
        signed == s0 # <<>> /\ Head(s0) \in {"+", "-"}
        sign == IF s0 # <<>> /\ Head(s0) = "-" THEN -1 ELSE 1
        s1 == IF signed THEN Tail(s0) ELSE s0
        hex == Len(s1) >= 2 /\ s1[1] = "0" /\ s1[2] \in {"x", "X"}
        radix == IF hex THEN 16 ELSE 10
        s2 == IF hex THEN SubSeq(s1, 3, Len(s1)) ELSE s1
        z == SubSeq(s2, 1, DigitPrefixLen(s2, radix))
    IN  IF z = <<>> THEN NaN ELSE Number(sign * DigitsValue(z, radix))

-----------------------------------------------------------------------------
(* Machine's static constants. *)

\* Uint16Array.BYTES_PER_ELEMENT
WORD_SIZE == 2
WORD_RANGE == 2 ^ (8 * WORD_SIZE)
NUM_REGISTERS == 2
PC_HALT == -1

-----------------------------------------------------------------------------
(* DataType *)

\* Mutant of DataType_register: registers are numbered from one.
DataType_register_oneBased ==
    [name |-> <<"r","e","g","i","s","t","e","r">>, min |-> 1, max |-> NUM_REGISTERS]

\* Mutant of DataType_register: max is the register count, not the last index.
DataType_register_offByOne ==
    [name |-> <<"r","e","g","i","s","t","e","r">>, min |-> 0, max |-> NUM_REGISTERS]

DataType_register ==
    [name |-> <<"r","e","g","i","s","t","e","r">>, min |-> 0, max |-> NUM_REGISTERS - 1]
DataType_address ==
    [name |-> <<"a","d","d","r","e","s","s">>, min |-> 0, max |-> WORD_RANGE]
DataType_word ==
    [name |-> <<"w","o","r","d">>, min |-> 0, max |-> WORD_RANGE]

\* DataType.helpText: `${name} [${min} - ${max}]`
DataType_helpText(dataType) ==
    dataType.name \o <<" ", "[">> \o numberToString(dataType.min)
        \o <<" ", "-", " ">> \o numberToString(dataType.max) \o <<"]">>

\* Mutant of parse: the integer is compared with max only.
parse_noLowerBound(dataType, code) ==
    LET checked(integer) ==
            IF integer.nan THEN Throw(invalidInputType)
            ELSE IF integer.n > dataType.max
                 THEN Throw(inputOutsideRange)
                 ELSE Return(integer.n)
    IN  checked(parseInt(code))

\* DataType.parse. The constant `integer` of the source is the parameter of a
\* local operator, so that it is bound once to parseInt(code); the constants
\* `results` and `done` further down are bound the same way.
parse(dataType, code) ==
    LET checked(integer) ==
            IF integer.nan THEN Throw(invalidInputType)
            ELSE IF integer.n < dataType.min \/ integer.n > dataType.max
                 THEN Throw(inputOutsideRange)
                 ELSE Return(integer.n)
    IN  checked(parseInt(code))

-----------------------------------------------------------------------------
(* OperandSpec, AssemblyInstruction *)

OperandSpec(placeholder, dataType) == [placeholder |-> placeholder, dataType |-> dataType]

\* OperandSpec.helpText: `${placeholder}: ${dataType.helpText}`
OperandSpec_helpText(spec) ==
    spec.placeholder \o <<":", " ">> \o DataType_helpText(spec.dataType)

\* AssemblyInstruction.setRegister(registerCount): the argument is not used.
\* description: "Sets $Rn to integer value i"
AssemblyInstruction_setRegister(registerCount) ==
    [keyword |-> <<"S", "E", "T">>,
     operands |-> <<OperandSpec(<<"n">>, DataType_register),
                    OperandSpec(<<"i">>, DataType_word)>>,
     microcode |-> "setRegister",
     description |->
        <<"S","e","t","s"," ","$","R","n"," ","t","o"," ","i","n","t","e",
          "g","e","r"," ","v","a","l","u","e"," ","i">>]

\* AssemblyInstruction.addRegisters; description: "Sets $R0 = $R0 + $R1"
AssemblyInstruction_addRegisters ==
    [keyword |-> <<"A", "D", "D">>,
     operands |-> <<>>,
     microcode |-> "addRegisters",
     description |->
        <<"S","e","t","s"," ","$","R","0"," ","="," ","$","R","0"," ","+",
          " ","$","R","1">>]

\* AssemblyInstruction.helpText: an array of lines.
AssemblyInstruction_helpText(instruction) ==
    LET exampleTokens ==
            <<instruction.keyword>> \o
                [i \in 1..Len(instruction.operands) |-> instruction.operands[i].placeholder]
    IN  << instruction.keyword \o <<":", " ">> \o instruction.description,
           <<"E","x","a","m","p","l","e",":"," ">> \o join(exampleTokens, <<" ">>) >>
        \o [i \in 1..Len(instruction.operands) |->
                OperandSpec_helpText(instruction.operands[i])]

-----------------------------------------------------------------------------
(* AssemblySyntax, AssemblyStatement, AssemblyLanguage *)

\* AssemblySyntax.tokenizeLine
tokenizeLine(text) ==
    LET index == indexOf(text, "#")
        comment == IF index >= 0 THEN trim(substringFrom(text, index + 1)) ELSE NullString
        code == IF index >= 0 THEN substringTo(text, index) ELSE text
        tokens == filterNonEmpty(split(trim(code), " "))
    IN  [keyword |-> IF Len(tokens) > 0 THEN toUpperCase(Head(tokens)) ELSE NullString,
         operands |-> IF Len(tokens) > 0 THEN Tail(tokens) ELSE tokens,
         comment |-> comment]

\* JavaScript truthiness of a string or null.
Truthy(s) == s # NullString /\ Len(s) > 0

\* new AssemblyStatement(instruction, operands, text, comment)
AssemblyStatement(instruction, operands, text, comment) ==
    [instruction |-> instruction,
     operands |-> operands,
     text |-> text,
     comment |-> IF Truthy(comment) THEN comment ELSE NullString]

\* new AssemblyLanguage(instructionSpecs)
AssemblyLanguage(instructionSpecs) == [instructionSpecs |-> instructionSpecs]

\* a == b for two values that are each a string, null or undefined: null and
\* undefined equal each other and no string, strings are equal when they have
\* the same characters.
UndefinedString == << "<undefined>" >>
LooseEquals(a, b) ==
    IF a \in {NullString, UndefinedString} \/ b \in {NullString, UndefinedString}
    THEN a \in {NullString, UndefinedString} /\ b \in {NullString, UndefinedString}
    ELSE a = b

\* Mutant of getInstruction: the keyword is compared in upper case.
getInstruction_ignoresCase(language, keyword) ==
    LET specs == language.instructionSpecs
        found == {i \in 1..Len(specs) :
                     /\ keyword \notin {NullString, UndefinedString}
                     /\ specs[i].keyword = toUpperCase(keyword)}
    IN  IF found = {} THEN Throw(unknownInstruction)
        ELSE Return(specs[CHOOSE i \in found : \A j \in found : i <= j])

\* AssemblyLanguage.getInstruction
getInstruction(language, keyword) ==
    LET specs == language.instructionSpecs
        found == {i \in 1..Len(specs) : LooseEquals(specs[i].keyword, keyword)}
    IN  IF found = {} THEN Throw(unknownInstruction)
        ELSE Return(specs[CHOOSE i \in found : \A j \in found : i <= j])

\* The operand results of spec.dataType.parse(line.operands[index]), left to right.
parseOperands(instruction, tokens) ==
    [index \in 1..Len(instruction.operands) |->
        parse(instruction.operands[index].dataType, tokens[index])]

\* The first operand that throws, 0 if none does.
firstThrow(results) ==
    IF \E i \in 1..Len(results) : results[i].threw
    THEN CHOOSE i \in 1..Len(results) :
             results[i].threw /\ \A j \in 1..(i-1) : ~results[j].threw
    ELSE 0

\* Mutant of assembleStatement: the operands present are parsed before their
\* number is compared.
assembleStatement_parsesFirst(language, text) ==
    LET line == tokenizeLine(text)
    IN  IF ~Truthy(line.keyword) /\ ~Truthy(line.comment) THEN Return(Null)
        ELSE IF Truthy(line.keyword)
        THEN LET got == getInstruction(language, line.keyword)
             IN  IF got.threw THEN got
                 ELSE LET instruction == got.value
                          present == IF Len(line.operands) < Len(instruction.operands)
                                     THEN Len(line.operands)
                                     ELSE Len(instruction.operands)
                          results == [index \in 1..present |->
                                         parse(instruction.operands[index].dataType,
                                               line.operands[index])]
                          bad == firstThrow(results)
                      IN  IF bad # 0 THEN results[bad]
                          ELSE IF Len(line.operands) # Len(instruction.operands)
                          THEN Throw(invalidInstructionFormat)
                          ELSE Return(AssemblyStatement(
                                   instruction,
                                   [i \in 1..Len(results) |-> results[i].value],
                                   text, line.comment))
        ELSE Return(AssemblyStatement(Null, <<>>, text, line.comment))

\* AssemblyLanguage.assembleStatement
assembleStatement(language, text) ==
    LET line == tokenizeLine(text)
    IN  IF ~Truthy(line.keyword) /\ ~Truthy(line.comment) THEN Return(Null)
        ELSE IF Truthy(line.keyword)
        THEN LET got == getInstruction(language, line.keyword)
             IN  IF got.threw THEN got
                 ELSE LET instruction == got.value
                      IN  IF Len(line.operands) # Len(instruction.operands)
                          THEN Throw(invalidInstructionFormat)
                          ELSE LET results == parseOperands(instruction, line.operands)
                                   bad == firstThrow(results)
                               IN  IF bad # 0 THEN results[bad]
                                   ELSE Return(AssemblyStatement(
                                            instruction,
                                            [i \in 1..Len(results) |-> results[i].value],
                                            text, line.comment))
        ELSE Return(AssemblyStatement(Null, <<>>, text, line.comment))

-----------------------------------------------------------------------------
(* Machine: the methods as functions of the machine m =                     *)
(* [registers, statements, pc].                                             *)

\* Mutant of MachineNew: the constructor leaves pc at PC_HALT.
MachineNew_haltedPC ==
    [registers |-> [i \in 1..NUM_REGISTERS |-> 0],
     statements |-> <<>>,
     pc |-> PC_HALT]

\* new Machine(): its registers, statements and pc.
MachineNew ==
    [registers |-> [i \in 1..NUM_REGISTERS |-> 0],
     statements |-> <<>>,
     pc |-> 0]

\* new Machine(): its assemblyLanguage.
assemblyLanguage ==
    AssemblyLanguage(<<AssemblyInstruction_setRegister(NUM_REGISTERS),
                       AssemblyInstruction_addRegisters>>)

\* Array.isArray(x): an argument is [isArray |-> TRUE, items |-> <<...>>] or
\* [isArray |-> FALSE, value |-> v].
Array(items) == [isArray |-> TRUE, items |-> items]
NotArray(value) == [isArray |-> FALSE, value |-> value]

\* Mutant of append: loading statements restarts the machine at index 0.
append_resetsPC(m, x) ==
    IF ~x.isArray THEN m
    ELSE [m EXCEPT !.statements = m.statements \o x.items, !.pc = 0]

\* Mutant of append: the new statements are put before the old ones.
append_prepends(m, x) ==
    IF ~x.isArray THEN m
    ELSE [m EXCEPT !.statements = x.items \o m.statements]

\* Machine.append
append(m, x) ==
    IF ~x.isArray THEN m
    ELSE [m EXCEPT !.statements = m.statements \o x.items]

\* Machine.instructionCount
instructionCount(m) == Len(m.statements)

\* Mutant of halting: pc = instructionCount is taken for a valid index.
halting_offByOne(m) == m.pc < 0 \/ m.pc > Len(m.statements)

\* Mutant of halting: the last statement is taken for the end of the list.
halting_stopsEarly(m) == m.pc < 0 \/ m.pc + 1 >= Len(m.statements)

\* Mutant of halting: a negative pc is not recognised.
halting_noNegative(m) == m.pc >= Len(m.statements)

\* Machine.halting
halting(m) == m.pc < 0 \/ m.pc >= Len(m.statements)

\* a[index] on a JavaScript array: undefined outside the array.
arrayLoad(a, index) ==
    IF index + 1 \in DOMAIN a THEN a[index + 1] ELSE Undefined

\* Machine.nextInstruction
nextInstruction(m) ==
    IF halting(m) THEN Null ELSE arrayLoad(m.statements, m.pc)

\* Mutant of setPC: a value outside the statement list is refused.
setPC_checked(m, value) ==
    IF value < 0 \/ value > Len(m.statements) THEN m ELSE [m EXCEPT !.pc = value]

\* Machine.setPC
setPC(m, value) == [m EXCEPT !.pc = value]

\* this.registers[rIndex] = value, on a JavaScript array: an index at or past the
\* length lengthens the array and leaves holes; a negative index is no element.
arrayStore(a, index, value) ==
    IF index < 0 THEN a
    ELSE [i \in 1..(IF index + 1 > Len(a) THEN index + 1 ELSE Len(a)) |->
             IF i = index + 1 THEN value
             ELSE IF i <= Len(a) THEN a[i] ELSE Undefined]

\* Machine.setRegister
setRegister(m, rIndex, value) ==
    [m EXCEPT !.registers = arrayStore(m.registers, rIndex, value)]

\* Mutant of addRegisters: the sum is stored in register 1.
addRegisters_wrongTarget(m) ==
    [m EXCEPT !.registers = arrayStore(m.registers, 1, m.registers[1] + m.registers[2])]

\* Machine.addRegisters
addRegisters(m) ==
    [m EXCEPT !.registers = arrayStore(m.registers, 0, m.registers[1] + m.registers[2])]

\* next.instruction.microcode.apply(this, next.operands), the microcode being one
\* of the methods under "Microcode implementation": setPC, setRegister,
\* addRegisters.
applyMicrocode(m, instruction, operands) ==
    CASE instruction.microcode = "setRegister" -> setRegister(m, operands[1], operands[2])
      [] instruction.microcode = "addRegisters" -> addRegisters(m)
      [] instruction.microcode = "setPC" -> setPC(m, operands[1])

\* Mutant of step: pc is incremented only when there is microcode to run.
step_noopStalls(m) ==
    LET next == nextInstruction(m)
    IN  IF next \in {Null, Undefined} THEN m
        ELSE IF next.instruction # Null
             THEN applyMicrocode([m EXCEPT !.pc = m.pc + 1], next.instruction, next.operands)
             ELSE m

\* Mutant of step: pc is incremented before the halting machine returns.
step_alwaysAdvances(m) ==
    LET next == nextInstruction(m)
        m1 == [m EXCEPT !.pc = m.pc + 1]
    IN  IF next \in {Null, Undefined} THEN m1
        ELSE IF next.instruction # Null
             THEN applyMicrocode(m1, next.instruction, next.operands)
             ELSE m1

\* Mutant of step: pc is incremented after the microcode has run.
step_incrementsLast(m) ==
    LET next == nextInstruction(m)
    IN  IF next \in {Null, Undefined} THEN m
        ELSE LET m1 == IF next.instruction # Null
                       THEN applyMicrocode(m, next.instruction, next.operands)
                       ELSE m
             IN  [m1 EXCEPT !.pc = m1.pc + 1]

\* Mutant of step: the statement is taken off the front of the list
\* (statements.shift()) instead of being read at pc.
step_consumes(m) ==
    LET next == nextInstruction(m)
    IN  IF next \in {Null, Undefined} THEN m
        ELSE LET m1 == [m EXCEPT !.pc = m.pc + 1, !.statements = Tail(m.statements)]
             IN  IF next.instruction # Null
                 THEN applyMicrocode(m1, next.instruction, next.operands)
                 ELSE m1

\* Machine.step
step(m) ==
    LET next == nextInstruction(m)
    IN  IF next \in {Null, Undefined} THEN m
        ELSE LET m1 == [m EXCEPT !.pc = m.pc + 1]
             IN  IF next.instruction # Null
                 THEN applyMicrocode(m1, next.instruction, next.operands)
                 ELSE m1

\* Mutant of stateSummary: the registers are listed from the last to the first.
stateSummary_reversed(m) ==
    join([i \in 1..Len(m.registers) |->
             <<"[">> \o numberToString(m.registers[Len(m.registers) + 1 - i]) \o <<"]">>],
         <<" ">>)

\* Machine.stateSummary
stateSummary(m) ==
    join([i \in 1..Len(m.registers) |->
             <<"[">> \o numberToString(m.registers[i]) \o <<"]">>],
         <<" ">>)

\* Mutant of AssemblyInstruction_execute: the number of tokens is compared after
\* the microcode has run on the leading tokens.
AssemblyInstruction_execute_lateCheck(instruction, tokens, machine) ==
    IF Len(tokens) < Len(instruction.operands)
    THEN ThrowFrom(invalidInstructionFormat, machine)
    ELSE LET checked(after) ==
                 IF Len(tokens) # Len(instruction.operands)
                 THEN ThrowFrom(invalidInstructionFormat, after)
                 ELSE Return(after)
             applied(results, bad) ==
                 IF bad # 0 THEN ThrowFrom(results[bad].error, machine)
                 ELSE checked(applyMicrocode(machine, instruction,
                                  [i \in 1..Len(results) |-> results[i].value]))
             parsed(results) == applied(results, firstThrow(results))
         IN  parsed(parseOperands(instruction, tokens))

\* AssemblyInstruction.execute(tokens, machine): the machine after the
\* microcode, or the error thrown and the machine as it is at the throw.
AssemblyInstruction_execute(instruction, tokens, machine) ==
    IF Len(tokens) # Len(instruction.operands)
    THEN ThrowFrom(invalidInstructionFormat, machine)
    ELSE LET applied(results, bad) ==
                 IF bad # 0 THEN ThrowFrom(results[bad].error, machine)
                 ELSE Return(applyMicrocode(machine, instruction,
                                 [i \in 1..Len(results) |-> results[i].value]))
             parsed(results) == applied(results, firstThrow(results))
         IN  parsed(parseOperands(instruction, tokens))

\* Machine.execute(instruction, input)
execute(m, instruction, tokens) == AssemblyInstruction_execute(instruction, tokens, m)

-----------------------------------------------------------------------------
(* Program, REPL *)

\* Mutant of tokenize: the input is not converted to upper case.
tokenize_keepsCase(line) ==
    IF Len(line) = 0 THEN Throw(unknownInstruction)
    ELSE LET tokens == split(line, " ")
         IN  Return([keyword |-> Head(tokens), tokens |-> Tail(tokens)])

\* Mutant of tokenize: an empty input is reported as a format error.
tokenize_blankIsFormatError(line) ==
    IF Len(line) = 0 THEN Throw(invalidInstructionFormat)
    ELSE LET tokens == split(toUpperCase(line), " ")
         IN  Return([keyword |-> Head(tokens), tokens |-> Tail(tokens)])

\* Program.tokenize: [keyword, tokens], or the error thrown.
tokenize(line) ==
    IF Len(line) = 0 THEN Throw(unknownInstruction)
    ELSE LET tokens == split(toUpperCase(line), " ")
         IN  Return([keyword |-> Head(tokens), tokens |-> Tail(tokens)])

\* Mutant of Program_line: an empty line is passed over.
Program_line_skipsBlank(m, line) ==
    IF Len(line) = 0 THEN Return(m)
    ELSE LET t == tokenize(line)
         IN  IF t.threw THEN ThrowFrom(t.error, m)
             ELSE LET got == getInstruction(assemblyLanguage, t.value.keyword)
                  IN  IF got.threw THEN ThrowFrom(got.error, m)
                      ELSE execute(m, got.value, t.value.tokens)

\* The body of the loop of Program.run for one line: the machine after the
\* line, or the error thrown.
Program_line(m, line) ==
    LET t == tokenize(line)
    IN  IF t.threw THEN ThrowFrom(t.error, m)
        ELSE LET got == getInstruction(assemblyLanguage, t.value.keyword)
             IN  IF got.threw THEN ThrowFrom(got.error, m)
                 ELSE execute(m, got.value, t.value.tokens)

\* new Program(text), before its constructor calls this.run().
Program_new(text) ==
    [machine |-> MachineNew, input |-> split(text, "\n"), output |-> <<>>]

\* The entries Program.run appends: "HALT", `ERROR: ${e}`.
HALT == <<"H", "A", "L", "T">>
Program_error(e) == <<"E", "R", "R", "O", "R", ":", " ">> \o e

\* new REPL()
REPL_new == [machine |-> MachineNew]

\* REPL.errorMessage: `ERROR: ${text}.`
errorMessage(text) == <<"E", "R", "R", "O", "R", ":", " ">> \o text \o <<".">>

\* The lines REPL.helpText pushes for the instructions specs, "# " before the
\* first line of each.
RECURSIVE helpLines(_)
helpLines(specs) ==
    IF specs = <<>> THEN <<>>
    ELSE LET lines == AssemblyInstruction_helpText(Head(specs))
         IN  [index \in 1..Len(lines) |->
                 (IF index = 1 THEN <<"#", " ">> ELSE <<>>) \o lines[index]]
             \o helpLines(Tail(specs))

\* REPL.helpText; its first line is
\* `I am running on a ${Machine.WORD_SIZE * 8}-bit virtual machine. Instructions:`
helpText ==
    join(<< <<"I"," ","a","m"," ","r","u","n","n","i","n","g"," ","o","n"," ","a"," ">>
              \o numberToString(WORD_SIZE * 8)
              \o <<"-","b","i","t"," ","v","i","r","t","u","a","l"," ",
                   "m","a","c","h","i","n","e","."," ",
                   "I","n","s","t","r","u","c","t","i","o","n","s",":">> >>
            \o helpLines(assemblyLanguage.instructionSpecs),
         <<"\n">>)

\* Mutant of REPL_run: the catch block starts over with a new Machine.
REPL_run_resetsOnError(m, line) ==
    LET t == tokenize(line)
    IN  IF t.threw THEN [machine |-> MachineNew, returned |-> errorMessage(t.error)]
        ELSE IF t.value.keyword = <<"H", "E", "L", "P">>
        THEN [machine |-> m, returned |-> helpText]
        ELSE LET got == getInstruction(assemblyLanguage, t.value.keyword)
             IN  IF got.threw
                 THEN [machine |-> MachineNew, returned |-> errorMessage(got.error)]
                 ELSE LET reply(done) ==
                              IF done.threw
                              THEN [machine |-> MachineNew,
                                    returned |-> errorMessage(done.error)]
                              ELSE [machine |-> done.value,
                                    returned |-> stateSummary(done.value)]
                      IN  reply(execute(m, got.value, t.value.tokens))

\* REPL.run(input): the machine after the call and the string returned.
REPL_run(m, line) ==
    LET t == tokenize(line)
    IN  IF t.threw THEN [machine |-> m, returned |-> errorMessage(t.error)]
        ELSE IF t.value.keyword = <<"H", "E", "L", "P">>
        THEN [machine |-> m, returned |-> helpText]
        ELSE LET got == getInstruction(assemblyLanguage, t.value.keyword)
             IN  IF got.threw THEN [machine |-> m, returned |-> errorMessage(got.error)]
                 ELSE LET reply(done) ==
                              IF done.threw
                              THEN [machine |-> done.machine,
                                    returned |-> errorMessage(done.error)]
                              ELSE [machine |-> done.value,
                                    returned |-> stateSummary(done.value)]
                      IN  reply(execute(m, got.value, t.value.tokens))

-----------------------------------------------------------------------------
(* The state machine: one Machine and the calls made on it.                 *)

\* The lines of source text that are assembled for the Machine: "SET 1 10",
\* " set 0 65535 # max", "ADD", "# noop", "", and five lines that do not assemble.
Lines ==
    {<<"S", "E", "T", " ", "1", " ", "1", "0">>,
     <<" ", "s", "e", "t", " ", "0", " ", "6", "5", "5", "3", "5", " ", "#", " ", "m", "a", "x">>,
     <<"A", "D", "D">>,
     <<"#", " ", "n", "o", "o", "p">>,
     <<>>,
     <<"S", "E", "T", " ", "2", " ", "1">>,
     <<"S", "E", "T", " ", "1">>,
     <<"S", "E", "T", " ", "1", " ", "a", "b", "c">>,
     <<"B", "O", "G", "U", "S">>,
     <<"S", "E", "T", " ", "0", " ", "6", "5", "5", "3", "7">>}

\* Further lines given to assembleStatement alone: "SET 1 65536", "SET 0x1
\* 0x10", "SET 1 12abc", "SET -0 5", "SET 1 -1", "SET 0.5 2", "set\t1 2", "SET
\* 1 2 3", "ADD 1", "  ADD  ", "#", "ADD#x", "SET +1 +2", "SET 1 \t2", "aDd",
\* "SET a 99999", "SET 9 a", "   ", "SET 1 65535", "#  ", " \t# ", "SET a",
\* "SET 9 a b", "BOGUS a".
AsmLines ==
    {<<"S", "E", "T", " ", "a">>,
     <<"S", "E", "T", " ", "9", " ", "a", " ", "b">>,
     <<"B", "O", "G", "U", "S", " ", "a">>,
     <<"S", "E", "T", " ", "1", " ", "6", "5", "5", "3", "6">>,
     <<"S", "E", "T", " ", "0", "x", "1", " ", "0", "x", "1", "0">>,
     <<"S", "E", "T", " ", "1", " ", "1", "2", "a", "b", "c">>,
     <<"S", "E", "T", " ", "-", "0", " ", "5">>,
     <<"S", "E", "T", " ", "1", " ", "-", "1">>,
     <<"S", "E", "T", " ", "0", ".", "5", " ", "2">>,
     <<"s", "e", "t", "\t", "1", " ", "2">>,
     <<"S", "E", "T", " ", "1", " ", "2", " ", "3">>,
     <<"A", "D", "D", " ", "1">>,
     <<" ", " ", "A", "D", "D", " ", " ">>,
     <<"#">>,
     <<"A", "D", "D", "#", "x">>,
     <<"S", "E", "T", " ", "+", "1", " ", "+", "2">>,
     <<"S", "E", "T", " ", "1", " ", "\t", "2">>,
     <<"a", "D", "d">>,
     <<"S", "E", "T", " ", "a", " ", "9", "9", "9", "9", "9">>,
     <<"S", "E", "T", " ", "9", " ", "a">>,
     <<" ", " ", " ">>,
     <<"S", "E", "T", " ", "1", " ", "6", "5", "5", "3", "5">>,
     <<"#", " ", " ">>,
     <<" ", "\t", "#", " ">>}

\* What assembleStatement does with each of those lines.
AssembledLine ==
    [text \in Lines \cup AsmLines |-> assembleStatement(assemblyLanguage, text)]

\* The values assembleStatement returns for those lines (null for the blank line).
Assembled ==
    {AssembledLine[text].value : text \in {t \in Lines : ~AssembledLine[t].threw}}

\* The arrays of at most n elements of S.
ArraysOf(S, n) == UNION {[1..k -> S] : k \in 0..n}

\* The arguments given to append: the arrays of no, one and two assembled
\* statements, and two values that are no arrays (undefined, and the statement
\* ADD passed without an array around it).
AppendArgs ==
    {Array(<<>>)} \cup {Array(<<a>>) : a \in Assembled}
        \cup {Array(<<a, b>>) : a \in Assembled, b \in Assembled}
        \cup {NotArray(Undefined), NotArray(AssembledLine[<<"A", "D", "D">>].value)}

\* The lines given to REPL.run: "SET 0 5", "set 1 7", "ADD", "HELP", "help", "",
\* "BOGUS", "SET 2 1", "SET 1", "SET a 1", "# c", " ADD", "SET 0 65536",
\* "SET 1 abc", "SET 0 65537", "SET 0 5 1", "ADD 1", "HeLp", "SET 1  2",
\* "ADD # c", "help me", "SET a 99999", "SET 9 a", "SET a".
ReplInputs ==
    {<<"S", "E", "T", " ", "a", " ", "9", "9", "9", "9", "9">>,
     <<"S", "E", "T", " ", "9", " ", "a">>,
     <<"S", "E", "T", " ", "a">>,
     <<"S", "E", "T", " ", "0", " ", "5">>,
     <<"s", "e", "t", " ", "1", " ", "7">>,
     <<"A", "D", "D">>,
     <<"H", "E", "L", "P">>,
     <<"h", "e", "l", "p">>,
     <<>>,
     <<"B", "O", "G", "U", "S">>,
     <<"S", "E", "T", " ", "2", " ", "1">>,
     <<"S", "E", "T", " ", "1">>,
     <<"S", "E", "T", " ", "a", " ", "1">>,
     <<"#", " ", "c">>,
     <<" ", "A", "D", "D">>,
     <<"S", "E", "T", " ", "0", " ", "6", "5", "5", "3", "6">>,
     <<"S", "E", "T", " ", "1", " ", "a", "b", "c">>,
     <<"S", "E", "T", " ", "0", " ", "6", "5", "5", "3", "7">>,
     <<"S", "E", "T", " ", "0", " ", "5", " ", "1">>,
     <<"A", "D", "D", " ", "1">>,
     <<"H", "e", "L", "p">>,
     <<"S", "E", "T", " ", "1", " ", " ", "2">>,
     <<"A", "D", "D", " ", "#", " ", "c">>,
     <<"h", "e", "l", "p", " ", "m", "e">>}

\* The lines of Program texts: "SET 0 5", "set 1 7", "ADD", "", "BOGUS",
\* "SET 1  2", "SET 2 1", "SET a 1", "help".
ProgramLines ==
    {<<"h", "e", "l", "p">>,
     <<"S", "E", "T", " ", "0", " ", "5">>,
     <<"s", "e", "t", " ", "1", " ", "7">>,
     <<"A", "D", "D">>,
     <<>>,
     <<"B", "O", "G", "U", "S">>,
     <<"S", "E", "T", " ", "1", " ", " ", "2">>,
     <<"S", "E", "T", " ", "2", " ", "1">>,
     <<"S", "E", "T", " ", "a", " ", "1">>}

\* The texts given to new Program: up to MaxProgramLines lines joined by "\n".
ProgramTexts ==
    {join(lines, <<"\n">>) : lines \in ArraysOf(ProgramLines, MaxProgramLines)}

\* The integers whose decimal text is given to DataType.parse.
ParseIntegers ==
    {0, 1, 2, 3, 9, 10, 123, 9999, 32768, 65534, 65535,
     65536, 65537, 100000, -1, -2, -65535, -65536}

\* Further texts given to DataType.parse: "abc", "", " ", "x1", "#", "-", "12abc",
\* "0.5", "0x10", " 42 ", "\t7", "+7", "1e3", "1 2", "0X1f", "--1", "007".
ParseTexts ==
    {<<"a", "b", "c">>, <<>>, <<" ">>, <<"x", "1">>, <<"#">>, <<"-">>,
     <<"1", "2", "a", "b", "c">>, <<"0", ".", "5">>, <<"0", "x", "1", "0">>,
     <<" ", "4", "2", " ">>, <<"\t", "7">>, <<"+", "7">>, <<"1", "e", "3">>,
     <<"1", " ", "2">>, <<"0", "X", "1", "f">>, <<"-", "-", "1">>, <<"0", "0", "7">>}

\* Further texts given to tokenizeLine alone: "     ", "  # this  is a comment
\* ", " set 1   123  # set  register", "set 3 a 2 4", "ADD\t", "\tADD", "a # b #
\* c", "add 1\t2\t3", "#\tc".
TokenizeTexts ==
    {<<" ", " ", " ", " ", " ">>,
     <<" ", " ", "#", " ", "t", "h", "i", "s", " ", " ", "i", "s", " ", "a", " ", "c", "o", "m", "m", "e", "n", "t", " ", " ", " ", " ", " ">>,
     <<" ", "s", "e", "t", " ", "1", " ", " ", " ", "1", "2", "3", " ", " ", "#", " ", "s", "e", "t", " ", " ", "r", "e", "g", "i", "s", "t", "e", "r">>,
     <<"s", "e", "t", " ", "3", " ", "a", " ", "2", " ", "4">>,
     <<"A", "D", "D", "\t">>,
     <<"\t", "A", "D", "D">>,
     <<"a", " ", "#", " ", "b", " ", "#", " ", "c">>,
     <<"a", "d", "d", " ", "1", "\t", "2", "\t", "3">>,
     <<"#", "\t", "c">>}

\* The instruction lists of the languages getInstruction is called on: the two
\* instructions of the Machine in both orders, each alone, and none.
InstructionLists ==
    {<<AssemblyInstruction_setRegister(NUM_REGISTERS), AssemblyInstruction_addRegisters>>,
     <<AssemblyInstruction_addRegisters, AssemblyInstruction_setRegister(NUM_REGISTERS)>>,
     <<AssemblyInstruction_setRegister(NUM_REGISTERS)>>,
     <<AssemblyInstruction_addRegisters>>,
     <<>>}

\* The arguments given to getInstruction: "ADD", "SET", "add", "aDd", "set",
\* "Set", "BOGUS", "", "ADD ", " SET", "AD", "ADDSET", null and undefined.
KeywordArgs ==
    {<<"A", "D", "D">>, <<"S", "E", "T">>, <<"a", "d", "d">>, <<"a", "D", "d">>, <<"s", "e", "t">>, <<"S", "e", "t">>, <<"B", "O", "G", "U", "S">>, <<>>,
     <<"A", "D", "D", " ">>, <<" ", "S", "E", "T">>, <<"A", "D">>, <<"A", "D", "D", "S", "E", "T">>, NullString, UndefinedString}

\* The enumerated DataType instances.
DataTypes == {DataType_register, DataType_address, DataType_word}

\* The values given to setPC.
PCValues == {PC_HALT} \cup (0 .. (MaxStatements + 1))

\* An instruction a caller makes with new AssemblyInstruction, whose microcode is
\* Machine.prototype.setPC, and the statement new AssemblyStatement(instruction,
\* [value], "JMP <value>", null).
JumpInstruction ==
    [keyword |-> <<"J", "M", "P">>,
     operands |-> <<OperandSpec(<<"a">>, DataType_address)>>,
     microcode |-> "setPC",
     description |-> <<"S", "e", "t", "s", " ", "P", "C", " ", "t", "o", " ", "a">>]
Jump(value) ==
    AssemblyStatement(JumpInstruction, <<value>>, <<"J", "M", "P", " ">> \o numberToString(value),
                      NullString)

\* The programs appended to a Machine whose statements may set pc: one to
\* MaxStatements statements, each "SET 1 10", "# noop" or a jump to one of the
\* values given to setPC.
JumpStatements ==
    {AssembledLine[<<"S", "E", "T", " ", "1", " ", "1", "0">>].value, AssembledLine[<<"#", " ", "n", "o", "o", "p">>].value}
        \cup {Jump(value) : value \in PCValues}
JumpPrograms ==
    {Array(items) : items \in ArraysOf(JumpStatements, MaxStatements) \ {<<>>}}

\* The Machine as one value.
Machine == [registers |-> registers, statements |-> statements, pc |-> pc]

\* The Machine becomes m.
Becomes(m) ==
    /\ registers' = m.registers
    /\ statements' = m.statements
    /\ pc' = m.pc

\* The Machine, REPL or Program has just been constructed (for a Program: its
\* constructor has not yet called this.run()).
InitMachine ==
    /\ host = "Machine"
    /\ registers = MachineNew.registers
    /\ statements = MachineNew.statements
    /\ pc = MachineNew.pc
    /\ mode = "idle"
    /\ input = <<>>
    /\ output = <<>>
    /\ arg = Undefined

InitREPL ==
    /\ host = "REPL"
    /\ registers = REPL_new.machine.registers
    /\ statements = REPL_new.machine.statements
    /\ pc = REPL_new.machine.pc
    /\ mode = "idle"
    /\ input = <<>>
    /\ output = <<>>
    /\ arg = Undefined

InitProgram ==
    /\ host = "Program"
    /\ \E text \in ProgramTexts :
          LET program == Program_new(text)
          IN  /\ registers = program.machine.registers
              /\ statements = program.machine.statements
              /\ pc = program.machine.pc
              /\ input = program.input
              /\ output = program.output
    /\ mode = "constructing"
    /\ arg = Undefined

\* The calls made on the assembler: assembleStatement(text), tokenizeLine(text)
\* of its AssemblySyntax, getInstruction(keyword) on a language of given
\* instructions, dataType.parse(code),
\* and AssemblyInstruction.setRegister(registerCount) followed by the parse of
\* code as the register operand of the instruction returned.
LanguageCalls ==
    {[op |-> "assembleStatement", text |-> text] : text \in Lines \cup AsmLines}
    \cup {[op |-> "tokenizeLine", text |-> text] :
              text \in Lines \cup AsmLines \cup TokenizeTexts}
    \cup {[op |-> "getInstruction", specs |-> specs, keyword |-> keyword] :
              specs \in InstructionLists, keyword \in KeywordArgs}
    \cup {[op |-> "parse", dataType |-> dataType, code |-> code] :
              dataType \in DataTypes,
              code \in ParseTexts \cup {numberToString(i) : i \in ParseIntegers}}
    \cup {[op |-> "setRegister", registerCount |-> registerCount,
           code |-> numberToString(r)] :
              registerCount \in 1..MaxRegisterCount, r \in 0..MaxRegisterCount}

\* A Machine has been constructed, and a call is about to be made on its
\* assemblyLanguage, on a data type or on an instruction specification.
InitLanguage ==
    /\ host = "Language"
    /\ registers = MachineNew.registers
    /\ statements = MachineNew.statements
    /\ pc = MachineNew.pc
    /\ mode = "idle"
    /\ input = <<>>
    /\ output = <<>>
    /\ arg \in LanguageCalls

Init ==
    /\ InitMachine \/ InitREPL \/ InitProgram \/ InitLanguage
    /\ before = Machine
    /\ cycles = 0
    /\ lastOp = "new"
    /\ pcSets = 0
    /\ lineNo = 0
    /\ returned = NullString
    /\ replCalls = 0

\* machine.append(x)
CallAppend(x) ==
    /\ host = "Machine"
    /\ mode = "idle"
    /\ x.isArray => Len(statements) + Len(x.items) <= MaxStatements
    /\ Becomes(append(Machine, x))
    /\ before' = Machine
    /\ lastOp' = "append"
    /\ arg' = x
    /\ UNCHANGED <<mode, cycles, pcSets, host, programVars, replVars>>

\* machine.step()
CallStep ==
    /\ host = "Machine"
    /\ mode = "idle"
    /\ Becomes(step(Machine))
    /\ before' = Machine
    /\ lastOp' = "step"
    /\ arg' = Undefined
    /\ UNCHANGED <<mode, cycles, pcSets, host, programVars, replVars>>

\* machine.setPC(value)
CallSetPC(value) ==
    /\ host = "Machine"
    /\ mode = "idle"
    /\ pcSets < MaxPCSets
    /\ Becomes(setPC(Machine, value))
    /\ before' = Machine
    /\ lastOp' = "setPC"
    /\ arg' = value
    /\ pcSets' = pcSets + 1
    /\ UNCHANGED <<mode, cycles, host, programVars, replVars>>

\* machine.run() is called: control reaches the head of its loop.
RunBegin ==
    /\ host = "Machine"
    /\ mode = "idle"
    /\ mode' = "running"
    /\ before' = Machine
    /\ cycles' = 0
    /\ lastOp' = "run"
    /\ arg' = Undefined
    /\ UNCHANGED <<machineVars, pcSets, host, programVars, replVars>>

\* One iteration of the loop of run(): while (!this.halting) { this.step(); }
RunIter ==
    /\ host = "Machine"
    /\ mode = "running"
    /\ ~halting(Machine)
    /\ cycles < MaxCycles
    /\ Becomes(step(Machine))
    /\ cycles' = cycles + 1
    /\ UNCHANGED <<mode, before, lastOp, arg, pcSets, host, programVars, replVars>>

\* Mutant of RunEnd: run() gives up after three iterations.
RunEnd_cycleLimit ==
    /\ host = "Machine"
    /\ mode = "running"
    /\ halting(Machine) \/ cycles >= 3
    /\ mode' = "idle"
    /\ cycles' = 0
    /\ UNCHANGED <<machineVars, before, lastOp, arg, pcSets, host, programVars, replVars>>

\* The loop of run() ends and run() returns.
RunEnd ==
    /\ host = "Machine"
    /\ mode = "running"
    /\ halting(Machine)
    /\ mode' = "idle"
    /\ cycles' = 0
    /\ UNCHANGED <<machineVars, before, lastOp, arg, pcSets, host, programVars, replVars>>

\* repl.run(line)
ReplRun(line) ==
    /\ host = "REPL"
    /\ replCalls < MaxReplCalls
    /\ LET result == REPL_run(Machine, line)
       IN  /\ Becomes(result.machine)
           /\ returned' = result.returned
    /\ before' = Machine
    /\ lastOp' = "repl"
    /\ arg' = line
    /\ replCalls' = replCalls + 1
    /\ UNCHANGED <<mode, cycles, pcSets, host, programVars>>

\* Mutant of ProgramLine: the catch block is inside the loop, which goes on with
\* the next line.
ProgramLine_continues ==
    /\ host = "Program"
    /\ mode = "constructing"
    /\ lineNo < Len(input)
    /\ LET done == Program_line(Machine, input[lineNo + 1])
       IN  IF done.threw
           THEN /\ Becomes(done.machine)
                /\ output' = Append(output, Program_error(done.error))
           ELSE /\ Becomes(done.value)
                /\ UNCHANGED output
    /\ lineNo' = lineNo + 1
    /\ before' = Machine
    /\ lastOp' = "line"
    /\ arg' = input[lineNo + 1]
    /\ UNCHANGED <<mode, cycles, pcSets, host, input, replVars>>

\* Program.run: one call of the callback of this.input.forEach; a throw leaves
\* the loop for the catch block, which appends an entry and ends the run.
ProgramLine ==
    /\ host = "Program"
    /\ mode = "constructing"
    /\ lineNo < Len(input)
    /\ LET done == Program_line(Machine, input[lineNo + 1])
       IN  IF done.threw
           THEN /\ Becomes(done.machine)
                /\ output' = Append(output, Program_error(done.error))
                /\ mode' = "done"
                /\ UNCHANGED lineNo
           ELSE /\ Becomes(done.value)
                /\ lineNo' = lineNo + 1
                /\ UNCHANGED <<output, mode>>
    /\ before' = Machine
    /\ lastOp' = "line"
    /\ arg' = input[lineNo + 1]
    /\ UNCHANGED <<cycles, pcSets, host, input, replVars>>

\* Program.run: the loop is over, this.appendOutput("HALT"), and the
\* constructor returns.
ProgramHalt ==
    /\ host = "Program"
    /\ mode = "constructing"
    /\ lineNo = Len(input)
    /\ output' = Append(output, HALT)
    /\ mode' = "done"
    /\ lastOp' = "program"
    /\ UNCHANGED <<machineVars, before, arg, cycles, pcSets, host, input, lineNo, replVars>>

\* machine.assemblyLanguage.assembleStatement(text)
CallAssembleStatement ==
    /\ host = "Language"
    /\ lastOp = "new"
    /\ arg.op = "assembleStatement"
    /\ returned' = assembleStatement(assemblyLanguage, arg.text)
    /\ lastOp' = "assembleStatement"
    /\ UNCHANGED <<machineVars, mode, before, cycles, arg, pcSets, host, programVars,
                   replCalls>>

\* new AssemblySyntax().tokenizeLine(text)
CallTokenizeLine ==
    /\ host = "Language"
    /\ lastOp = "new"
    /\ arg.op = "tokenizeLine"
    /\ returned' = tokenizeLine(arg.text)
    /\ lastOp' = "tokenizeLine"
    /\ UNCHANGED <<machineVars, mode, before, cycles, arg, pcSets, host, programVars,
                   replCalls>>

\* new AssemblyLanguage(specs).getInstruction(keyword)
CallGetInstruction ==
    /\ host = "Language"
    /\ lastOp = "new"
    /\ arg.op = "getInstruction"
    /\ returned' = getInstruction(AssemblyLanguage(arg.specs), arg.keyword)
    /\ lastOp' = "getInstruction"
    /\ UNCHANGED <<machineVars, mode, before, cycles, arg, pcSets, host, programVars,
                   replCalls>>

\* dataType.parse(code)
CallParse ==
    /\ host = "Language"
    /\ lastOp = "new"
    /\ arg.op = "parse"
    /\ returned' = parse(arg.dataType, arg.code)
    /\ lastOp' = "parse"
    /\ UNCHANGED <<machineVars, mode, before, cycles, arg, pcSets, host, programVars,
                   replCalls>>

\* AssemblyInstruction.setRegister(registerCount), and the parse of code by the
\* data type of the first operand (the register) of the instruction it returns.
CallSetRegister ==
    /\ host = "Language"
    /\ lastOp = "new"
    /\ arg.op = "setRegister"
    /\ LET instruction == AssemblyInstruction_setRegister(arg.registerCount)
       IN  returned' = parse(instruction.operands[1].dataType, arg.code)
    /\ lastOp' = "setRegister"
    /\ UNCHANGED <<machineVars, mode, before, cycles, arg, pcSets, host, programVars,
                   replCalls>>

Next ==
    \/ \E x \in AppendArgs : CallAppend(x)
    \/ CallStep
    \/ \E value \in PCValues : CallSetPC(value)
    \/ RunBegin
    \/ RunIter
    \/ RunEnd
    \/ \E line \in ReplInputs : ReplRun(line)
    \/ ProgramLine
    \/ ProgramHalt
    \/ CallAssembleStatement
    \/ CallTokenizeLine
    \/ CallGetInstruction
    \/ CallParse
    \/ CallSetRegister

Spec == Init /\ [][Next]_vars

\* machine.append(x), the first call made on a new Machine.
AppendProgram(x) ==
    /\ lastOp = "new"
    /\ CallAppend(x)

\* A Machine that is given one program with jumps, and then step() and run().
JumpNext ==
    \/ \E x \in JumpPrograms : AppendProgram(x)
    \/ CallStep
    \/ RunBegin
    \/ RunIter
    \/ RunEnd

\* new Machine()
JumpInit ==
    /\ host = "Machine"
    /\ registers = MachineNew.registers
    /\ statements = MachineNew.statements
    /\ pc = MachineNew.pc
    /\ mode = "idle"
    /\ input = <<>>
    /\ output = <<>>
    /\ arg = Undefined
    /\ before = Machine
    /\ cycles = 0
    /\ lastOp = "new"
    /\ pcSets = 0
    /\ lineNo = 0
    /\ returned = NullString
    /\ replCalls = 0

JumpSpec == JumpInit /\ [][JumpNext]_vars

\* run() is one synchronous loop: once called it keeps iterating, and returns
\* when its condition fails.
FairSpec == Spec /\ WF_vars(RunIter) /\ WF_vars(RunEnd)

-----------------------------------------------------------------------------
(* Vocabulary of the properties, stated on the state itself.                *)

\* The program counter points at an element of the statement list.
Ready == 0 <= pc /\ pc < Len(statements)
ReadyBefore == 0 <= before.pc /\ before.pc < Len(before.statements)

\* Every element of the statement list is an AssemblyStatement (none is null).
OnlyStatements == \A i \in 1..Len(statements) : statements[i] # Null

IsNoop(s) == s # Null /\ s.instruction = Null
IsSET(s) == s # Null /\ s.instruction # Null /\ s.instruction.keyword = <<"S", "E", "T">>
IsADD(s) == s # Null /\ s.instruction # Null /\ s.instruction.keyword = <<"A", "D", "D">>

\* The registers after statement s is executed on the registers r.
Executed(r, s) ==
    IF IsSET(s) THEN [r EXCEPT ![s.operands[1] + 1] = s.operands[2]]
    ELSE IF IsADD(s) THEN [r EXCEPT ![1] = r[1] + r[2]]
    ELSE r

\* The registers after the statements of list are executed in order on r.
RECURSIVE ExecutedAll(_, _)
ExecutedAll(r, list) ==
    IF list = <<>> THEN r ELSE ExecutedAll(Executed(r, Head(list)), Tail(list))

\* n calls of step() on the machine m.
RECURSIVE stepTimes(_, _)
stepTimes(m, n) == IF n = 0 THEN m ELSE stepTimes(step(m), n - 1)

-----------------------------------------------------------------------------
(* Properties. *)

C2_RunTerminates ==
    (lastOp = "run" /\ OnlyStatements) =>
        /\ mode = "running" =>
              /\ ReadyBefore => (pc = before.pc + cycles /\ pc <= Len(statements))
              /\ ~ReadyBefore => cycles = 0
              /\ cycles <= Len(statements)
              /\ Ready => ENABLED RunIter
              /\ ~Ready => ENABLED RunEnd
        /\ mode = "idle" =>
              /\ ~Ready
              /\ ReadyBefore => pc = Len(statements)

\* A run() that was called at pc = 1 of three statements has returned.
C2_Witness ==
    /\ mode = "idle" /\ lastOp = "run" /\ OnlyStatements
    /\ before.pc = 1 /\ Len(statements) = 3 /\ pc = 3

\* C3 (as claimed): in every state a Machine reaches by append of assembled
\* statements, step(), run() and setPC(), every register holds an integer of
\* [0, 65535].
C3_RegistersInWordRange ==
    host = "Machine" => \A i \in DOMAIN registers : registers[i] \in 0..65535

\* C4: append(x) changes neither pc nor a register; for an array x the list grows
\* by Len(x), the old statements keep their indices and the new ones follow in
\* the order given; for any other x the list is not changed.
C4_AppendFrame ==
    (mode = "idle" /\ lastOp = "append") =>
        /\ pc = before.pc
        /\ registers = before.registers
        /\ arg.isArray =>
              /\ Len(statements) = Len(before.statements) + Len(arg.items)
              /\ \A i \in 1..Len(before.statements) : statements[i] = before.statements[i]
              /\ \A j \in 1..Len(arg.items) :
                    statements[Len(before.statements) + j] = arg.items[j]
        /\ ~arg.isArray => statements = before.statements

\* Two statements were appended to a machine that had stepped over one statement.
C4_Witness ==
    /\ mode = "idle" /\ lastOp = "append"
    /\ arg.isArray /\ Len(arg.items) = 2
    /\ before.pc = 1 /\ before.registers[2] = 10
    /\ Len(before.statements) = 1 /\ Len(statements) = 3

\* C5: after append of k statements to a machine with pc = p and c statements,
\* halting is true exactly when p < 0 or p >= c + k; when c <= p < c + k the
\* machine was halting and is ready with the same pc, and a step() then executes
\* the statement appended at p; a ready machine stays ready.
C5_AppendAndHalting ==
    (mode = "idle" /\ lastOp = "append" /\ arg.isArray) =>
        LET p == before.pc
            c == Len(before.statements)
            k == Len(arg.items)
        IN  /\ halting(Machine) <=> (p < 0 \/ p >= c + k)
            /\ ~halting(before) => ~halting(Machine)
            /\ (c <= p /\ p < c + k) =>
                  /\ halting(before)
                  /\ ~halting(Machine)
                  /\ pc = p
                  /\ nextInstruction(Machine) = arg.items[p - c + 1]
                  /\ arg.items[p - c + 1] # Null =>
                        /\ step(Machine).registers = Executed(registers, arg.items[p - c + 1])
                        /\ step(Machine).pc = p + 1

\* A machine halting at pc = 1, the end of its list, was made ready by an append
\* of two statements.
C5_Witness ==
    /\ mode = "idle" /\ lastOp = "append"
    /\ arg.isArray /\ Len(arg.items) = 2
    /\ before.pc = 1 /\ Len(before.statements) = 1
    /\ pc = 1 /\ Len(statements) = 3

\* C6: step() on a halting machine changes neither pc nor a register nor the
\* statement list, and the machine is still halting.
C6_StepOnHaltingIsNoop ==
    (mode = "idle" /\ lastOp = "step" /\ ~ReadyBefore) =>
        /\ pc = before.pc
        /\ registers = before.registers
        /\ statements = before.statements
        /\ halting(Machine)

\* step() was called at pc = -1 with statements loaded, and past the end.
C6_Witness ==
    /\ mode = "idle" /\ lastOp = "step" /\ ~ReadyBefore
    /\ Len(statements) > 0
    /\ pc = PC_HALT

\* C7: on a machine holding n SET/ADD/no-op statements, run() called at pc = k,
\* 0 <= k < n, leaves the registers and pc that n - k calls of step() leave:
\* statements k..n-1 executed once each, in order, on the registers as they were.
C7_RunIsRepeatedStep ==
    (mode = "idle" /\ lastOp = "run" /\ ReadyBefore /\ OnlyStatements) =>
        LET n == Len(statements)
            k == before.pc
            m == stepTimes(before, n - k)
        IN  /\ registers = m.registers
            /\ pc = m.pc
            /\ pc = n
            /\ registers = ExecutedAll(before.registers, SubSeq(statements, k + 1, n))

\* After a first run of SET 1 10, no-op, ADD, setPC(1) and run() again: [20, 10].
C7_Witness ==
    /\ mode = "idle" /\ lastOp = "run" /\ OnlyStatements
    /\ pcSets = 1 /\ before.pc = 1 /\ Len(statements) = 3
    /\ before.registers = <<10, 10>>
    /\ registers = <<20, 10>>

\* C8: run() on a halting machine makes no iteration and changes neither a
\* register nor a statement nor pc; when run() has returned the machine is
\* halting, so a run() that follows a run() leaves the state the first one left.
C8_RunOnHaltingIsNoop ==
    /\ (lastOp = "run" /\ ~ReadyBefore) =>
          /\ cycles = 0
          /\ pc = before.pc
          /\ registers = before.registers
          /\ statements = before.statements
    /\ (lastOp = "run" /\ mode = "idle") => halting(Machine)

\* A second run() has returned on a machine whose first run() executed statements.
C8_Witness ==
    /\ mode = "idle" /\ lastOp = "run" /\ ~ReadyBefore
    /\ before.pc = 3 /\ Len(statements) = 3 /\ pcSets = 0
    /\ registers = <<10, 10>>

\* C9: a newly constructed Machine has NUM_REGISTERS (2) registers, all zero, no
\* statement, pc = 0, is halting and has no next instruction; the Machine of a
\* newly constructed REPL or Program is such a Machine.
C9_FreshMachine ==
    (lastOp = "new" /\ host \in {"Machine", "REPL", "Program"}) =>
        /\ Len(registers) = 2
        /\ \A i \in 1..Len(registers) : registers[i] = 0
        /\ instructionCount(Machine) = 0
        /\ pc = 0
        /\ halting(Machine)
        /\ nextInstruction(Machine) = Null

\* A Program of three lines is under construction and has run no line yet.
C9_Witness ==
    /\ lastOp = "new" /\ host = "Program"
    /\ Len(input) = 3 /\ lineNo = 0 /\ output = <<>>

\* C10: every statement assembleStatement returns with an instruction has as many
\* operands as the instruction declares, each inside the range of its DataType;
\* on a machine loaded with assembled statements the register file keeps its
\* NUM_REGISTERS integer entries (no step writes outside indices 0..1).
C10_AssembledStatementsAreValid ==
    /\ \A text \in Lines \cup AsmLines :
          LET r == AssembledLine[text]
          IN  (~r.threw /\ r.value # Null /\ r.value.instruction # Null) =>
                  LET st == r.value
                  IN  /\ Len(st.operands) = Len(st.instruction.operands)
                      /\ \A j \in 1..Len(st.operands) :
                            /\ st.operands[j] >= st.instruction.operands[j].dataType.min
                            /\ st.operands[j] <= st.instruction.operands[j].dataType.max
    /\ DOMAIN registers = 1..NUM_REGISTERS
    /\ \A i \in DOMAIN registers : registers[i] \in Int

\* Both registers have been written by assembled SET statements.
C10_Witness ==
    /\ registers = <<65535, 10>>
    /\ pc = Len(statements)
    /\ \E i \in 1..Len(statements) : IsSET(statements[i]) /\ statements[i].operands[1] = 1

-----------------------------------------------------------------------------
(* Vocabulary of the properties of REPL, Program and the assembler.          *)

HELP == <<"H", "E", "L", "P">>
ERROR == <<"E", "R", "R", "O", "R", ":", " ">>

\* s begins with prefix.
StartsWith(s, prefix) ==
    Len(s) >= Len(prefix) /\ SubSeq(s, 1, Len(prefix)) = prefix

\* sub occurs in s.
Contains(s, sub) ==
    \E i \in 1..(Len(s) - Len(sub) + 1) : SubSeq(s, i, i + Len(sub) - 1) = sub

\* token is read as an integer, and the integer is inside [min, max] of dataType.
ReadsAsInteger(token) == ~parseInt(token).nan
InsideRange(token, dataType) ==
    parseInt(token).n >= dataType.min /\ parseInt(token).n <= dataType.max

\* The last call was REPL.run or one line of Program.run, and it reached
\* instruction.execute(tokens, machine).
ReachedExecute ==
    /\ lastOp \in {"repl", "line"}
    /\ ~tokenize(arg).threw
    /\ lastOp = "repl" => tokenize(arg).value.keyword # HELP
    /\ ~getInstruction(assemblyLanguage, tokenize(arg).value.keyword).threw
ExecutedInstruction == getInstruction(assemblyLanguage, tokenize(arg).value.keyword).value
ExecutedTokens == tokenize(arg).value.tokens

\* The error that last call reported: REPL.run returns it, Program.run appends it.
Reported(e) ==
    IF lastOp = "repl" THEN returned = ERROR \o e \o <<".">>
    ELSE mode = "done" /\ output = <<ERROR \o e>>

\* C11: instruction.execute(tokens, machine) with the wrong number of tokens, or
\* with a token at any operand position that is no integer or is outside the
\* range of the operand's data type, throws (the format error, the type error
\* of the first such token, or its range error) and leaves every register with
\* the value it had before the call.
C11_FailedExecuteChangesNothing ==
    ReachedExecute =>
        LET operands == ExecutedInstruction.operands
            tokens == ExecutedTokens
            wrongCount == Len(tokens) # Len(operands)
            bad == {i \in 1..Len(operands) :
                       i <= Len(tokens) /\
                       (~ReadsAsInteger(tokens[i]) \/ ~InsideRange(tokens[i], operands[i].dataType))}
        IN  /\ wrongCount => (Reported(invalidInstructionFormat) /\ registers = before.registers)
            /\ (~wrongCount /\ bad # {}) =>
                  /\ registers = before.registers
                  /\ LET first == CHOOSE i \in bad : \A j \in bad : i <= j
                     IN  IF ReadsAsInteger(tokens[first])
                         THEN Reported(inputOutsideRange)
                         ELSE Reported(invalidInputType)
            /\ (~wrongCount /\ bad = {}) =>
                  IF lastOp = "repl" THEN ~StartsWith(returned, ERROR)
                  ELSE mode = "constructing" /\ output = <<>>

\* REPL.run("SET 0 65537") has failed at the second operand on registers [5] [7].
C11_Witness ==
    /\ ReachedExecute /\ lastOp = "repl"
    /\ arg = <<"S", "E", "T", " ", "0", " ", "6", "5", "5", "3", "7">>
    /\ before.registers = <<5, 7>>
    /\ returned = ERROR \o inputOutsideRange \o <<".">>

\* The operand data types of the instruction registered under keyword: SET has
\* a register and a word, ADD has none; no other keyword is registered.
RegisteredKeywords == {<<"S", "E", "T">>, <<"A", "D", "D">>}
OperandTypes(keyword) ==
    IF keyword = <<"S", "E", "T">> THEN <<DataType_register, DataType_word>> ELSE <<>>

NonNumericTexts ==
    {<<"a", "b", "c">>, <<>>, <<" ">>, <<"x", "1">>, <<"#">>, <<"-">>, <<"-", "-", "1">>}

\* C13 (as claimed): DataType.word.parse returns i for the decimal text of every
\* integer i of [0, 65535], throws Input outside valid range for the text of
\* every other integer, and throws Invalid input type for non-numeric text.
C13_WordParseRange ==
    (lastOp = "parse" /\ arg.dataType = DataType_word) =>
        /\ \A i \in ParseIntegers :
              arg.code = numberToString(i) =>
                  IF i \in 0..65535 THEN returned = Return(i)
                  ELSE returned = Throw(inputOutsideRange)
        /\ arg.code \in NonNumericTexts => returned = Throw(invalidInputType)

\* s is a base-10 integer literal: an optional sign, then decimal digits only.
IsBase10Literal(s) ==
    LET digits == IF s # <<>> /\ Head(s) \in {"+", "-"} THEN Tail(s) ELSE s
    IN  /\ digits # <<>>
        /\ \A i \in 1..Len(digits) : DigitValue(digits[i], 10) >= 0

\* C14 (as claimed): DataType.parse returns a value only for a base-10 integer
\* literal, white space around it allowed; for every other text ("12abc",
\* "0.5", "0x10" among them) it throws Invalid input type.
C14_ParseIsStrict ==
    lastOp = "parse" =>
        /\ ~returned.threw => IsBase10Literal(trim(arg.code))
        /\ ~IsBase10Literal(trim(arg.code)) => returned = Throw(invalidInputType)

\* C15 (as claimed): the SET instruction that AssemblyInstruction.setRegister(n)
\* builds accepts the register operand r exactly when 0 <= r <= n - 1, and throws
\* Input outside valid range for r = n.
C15_SetRegisterUsesCount ==
    lastOp = "setRegister" =>
        \A r \in 0..MaxRegisterCount :
            arg.code = numberToString(r) =>
                /\ ~returned.threw <=> r <= arg.registerCount - 1
                /\ r = arg.registerCount => returned = Throw(inputOutsideRange)

\* Lines that fail, one of each kind, and the message of each: "BOGUS",
\* "SET 1", "SET 0 5 1", "SET a 1", "SET 1 abc", "SET 2 1", "SET 0 65537".
FailingLines ==
    {[line |-> <<"B", "O", "G", "U", "S">>, message |-> unknownInstruction],
     [line |-> <<"S", "E", "T", " ", "1">>, message |-> invalidInstructionFormat],
     [line |-> <<"S", "E", "T", " ", "0", " ", "5", " ", "1">>, message |-> invalidInstructionFormat],
     [line |-> <<"S", "E", "T", " ", "a", " ", "1">>, message |-> invalidInputType],
     [line |-> <<"S", "E", "T", " ", "1", " ", "a", "b", "c">>, message |-> invalidInputType],
     [line |-> <<"S", "E", "T", " ", "2", " ", "1">>, message |-> inputOutsideRange],
     [line |-> <<"S", "E", "T", " ", "0", " ", "6", "5", "5", "3", "7">>, message |-> inputOutsideRange]}

\* C16: after any calls of REPL.run, a call with a line that fails (unknown
\* keyword, wrong operand count, malformed operand, operand out of range) returns
\* "ERROR: <message>." with the message of the failure, and whenever REPL.run
\* returns an ERROR string the registers, pc and statements of the Machine are
\* the ones before the call, so the lines that follow run on the state kept.
C16_ReplErrorPreservesMachine ==
    (host = "REPL" /\ lastOp = "repl") =>
        /\ \A f \in FailingLines :
              arg = f.line => returned = <<"E", "R", "R", "O", "R", ":", " ">> \o f.message \o <<".">>
        /\ StartsWith(returned, ERROR) =>
              /\ registers = before.registers
              /\ pc = before.pc
              /\ statements = before.statements
              /\ instructionCount(Machine) = instructionCount(before)
              /\ \E e \in {unknownInstruction, invalidInstructionFormat,
                           invalidInputType, inputOutsideRange} :
                    returned = ERROR \o e \o <<".">>

\* The third call, REPL.run("BOGUS"), has failed after two calls that set the
\* registers to [5] [7].
C16_Witness ==
    /\ host = "REPL" /\ lastOp = "repl" /\ replCalls = 3
    /\ arg = <<"B", "O", "G", "U", "S">>
    /\ returned = <<"E", "R", "R", "O", "R", ":", " ", "U", "n", "k", "n", "o", "w", "n", " ", "i", "n", "s", "t", "r", "u", "c", "t", "i", "o", "n", ".">>
    /\ registers = <<5, 7>>

\* Valid instruction lines given to REPL.run: "SET 0 5", "set 1 7", "ADD",
\* "SET 0 65536"; and lines with no instruction: "HELP", "help", "HeLp", "# c", "".
ValidInstructionLines ==
    {<<"S", "E", "T", " ", "0", " ", "5">>, <<"s", "e", "t", " ", "1", " ", "7">>, <<"A", "D", "D">>, <<"S", "E", "T", " ", "0", " ", "6", "5", "5", "3", "6">>}
LinesWithoutInstruction ==
    {<<"H", "E", "L", "P">>, <<"h", "e", "l", "p">>, <<"H", "e", "L", "p">>, <<"#", " ", "c">>, <<>>}

\* C17 (as claimed): REPL.run with a valid instruction line appends one statement
\* to the Machine and executes it, leaving the Machine halting with pc equal to
\* instructionCount; with a HELP line, a comment-only line or a blank line it
\* appends nothing.
C17_ReplAppendsOneStatement ==
    (host = "REPL" /\ lastOp = "repl") =>
        /\ arg \in ValidInstructionLines =>
              /\ instructionCount(Machine) = instructionCount(before) + 1
              /\ pc = instructionCount(Machine)
              /\ halting(Machine)
        /\ arg \in LinesWithoutInstruction =>
              instructionCount(Machine) = instructionCount(before)

\* C18 (as claimed): REPL.run returns a register summary, not an ERROR string, for
\* every line that assembleStatement accepts (keyword in any letter case, leading
\* or repeated spaces, a trailing comment, a comment-only line), and an ERROR
\* string for every line that assembleStatement rejects; HELP lines apart.
C18_ReplUsesAssembler ==
    (host = "REPL" /\ lastOp = "repl" /\ tokenizeLine(arg).keyword # HELP) =>
        LET result == assembleStatement(assemblyLanguage, arg)
            accepted == ~result.threw /\ result.value # Null
            rejected == result.threw
        IN  /\ accepted => returned = stateSummary(Machine)
            /\ rejected => StartsWith(returned, ERROR)

\* C19: the REPL keeps one Machine: its registers are all zero before the first
\* call, each call with a valid instruction line leaves the registers that the
\* line's statement gives on the registers the call found, and every other call
\* (a failed line, HELP) leaves the registers it found; so after any calls the
\* registers are the successful lines applied in call order to zeros. A
\* successful call returns "[r0] [r1]" for the registers as they then are.
C19_ReplMachinePersists ==
    host = "REPL" =>
        /\ lastOp = "new" => registers = [i \in 1..NUM_REGISTERS |-> 0]
        /\ (lastOp = "repl" /\ arg \in ValidInstructionLines) =>
              /\ registers =
                    Executed(before.registers, assembleStatement(assemblyLanguage, arg).value)
              /\ returned = <<"[">> \o numberToString(registers[1]) \o <<"]", " ", "[">>
                                \o numberToString(registers[2]) \o <<"]">>
        /\ (lastOp = "repl" /\ arg \notin ValidInstructionLines) =>
              /\ registers = before.registers
              /\ StartsWith(returned, ERROR) \/ returned = helpText

\* "set 1 7", "SET 0 5" and "ADD" have run in that order: the summary is "[12] [7]".
C19_Witness ==
    /\ host = "REPL" /\ lastOp = "repl" /\ replCalls = 3
    /\ arg = <<"A", "D", "D">>
    /\ before.registers = <<5, 7>>
    /\ registers = <<12, 7>>
    /\ returned = <<"[", "1", "2", "]", " ", "[", "7", "]">>

\* Lines whose keyword is HELP in some letter case: "HELP", "help", "HeLp",
\* "help me".
HelpLines == {<<"H", "E", "L", "P">>, <<"h", "e", "l", "p">>, <<"H", "e", "L", "p">>, <<"h", "e", "l", "p", " ", "m", "e">>}

\* C20: REPL.run with the keyword HELP, in any letter case and any state of the
\* Machine, returns the help text, which is no ERROR string and names the keyword
\* of every registered instruction (SET and ADD), and leaves the registers, pc
\* and the statement list as they were.
C20_HelpChangesNothing ==
    (host = "REPL" /\ lastOp = "repl" /\ arg \in HelpLines) =>
        /\ ~StartsWith(returned, ERROR)
        /\ Contains(returned, <<"#", " ", "S", "E", "T", ":", " ">>) /\ Contains(returned, <<"#", " ", "A", "D", "D", ":", " ">>)
        /\ \A i \in 1..Len(assemblyLanguage.instructionSpecs) :
              Contains(returned, assemblyLanguage.instructionSpecs[i].keyword)
        /\ StartsWith(returned, <<"I", " ", "a", "m", " ", "r", "u", "n", "n", "i", "n", "g", " ", "o", "n", " ", "a", " ", "1", "6", "-", "b", "i", "t", " ", "v", "i", "r", "t", "u", "a", "l", " ", "m", "a", "c", "h", "i", "n", "e", ".", " ", "I", "n", "s", "t", "r", "u", "c", "t", "i", "o", "n", "s", ":", "\n", "#", " ", "S", "E", "T", ":", " ", "S", "e", "t", "s", " ", "$", "R", "n", " ", "t", "o", " ", "i", "n", "t", "e", "g", "e", "r", " ", "v", "a", "l", "u", "e", " ", "i", "\n", "E", "x", "a", "m", "p", "l", "e", ":", " ", "S", "E", "T", " ", "n", " ", "i", "\n", "n", ":", " ", "r", "e", "g", "i", "s", "t", "e", "r", " ", "[", "0", " ", "-", " ", "1", "]", "\n">>)
        /\ registers = before.registers
        /\ pc = before.pc
        /\ statements = before.statements

\* REPL.run("HeLp") has returned the help text on registers [5] [7].
C20_Witness ==
    /\ host = "REPL" /\ lastOp = "repl" /\ replCalls = 3
    /\ arg = <<"H", "e", "L", "p">>
    /\ registers = <<5, 7>>
    /\ Contains(returned, <<"E", "x", "a", "m", "p", "l", "e", ":", " ", "S", "E", "T", " ", "n", " ", "i">>)

-----------------------------------------------------------------------------
(* Properties of Program. *)

\* The Program lines that fail, each with the message of its failure: "", "BOGUS",
\* "SET 1  2", "SET 2 1", "SET a 1", "help".
ProgramFailures ==
    {[line |-> <<"h", "e", "l", "p">>, message |-> unknownInstruction],
     [line |-> <<>>, message |-> unknownInstruction],
     [line |-> <<"B", "O", "G", "U", "S">>, message |-> unknownInstruction],
     [line |-> <<"S", "E", "T", " ", "1", " ", " ", "2">>, message |-> invalidInstructionFormat],
     [line |-> <<"S", "E", "T", " ", "2", " ", "1">>, message |-> inputOutsideRange],
     [line |-> <<"S", "E", "T", " ", "a", " ", "1">>, message |-> invalidInputType]}

\* The indices of the lines of this.input that fail, and the first of them.
FailingIndices == {i \in 1..Len(input) : \E f \in ProgramFailures : f.line = input[i]}
FirstFailing == CHOOSE i \in FailingIndices : \A j \in FailingIndices : i <= j

\* The lines of this.input before the first that fails, all of them if none does.
LinesBeforeFailure ==
    IF FailingIndices = {} THEN input ELSE SubSeq(input, 1, FirstFailing - 1)

\* C21: when new Program(text) has returned, the registers are those of a new
\* Machine after the lines before the first failing line, executed in order, and
\* that many lines have been executed; if no line fails the last output entry is
\* "HALT", otherwise it is "ERROR: <message>" with the message of the first
\* failing line.
C21_ProgramStopsAtFirstFailure ==
    (host = "Program" /\ mode = "done") =>
        /\ registers =
              ExecutedAll([i \in 1..NUM_REGISTERS |-> 0],
                          [i \in 1..Len(LinesBeforeFailure) |->
                              assembleStatement(assemblyLanguage, LinesBeforeFailure[i]).value])
        /\ lineNo = Len(LinesBeforeFailure)
        /\ output # <<>>
        /\ FailingIndices = {} => output[Len(output)] = HALT
        /\ FailingIndices # {} =>
              output[Len(output)] =
                  ERROR \o (CHOOSE f \in ProgramFailures : f.line = input[FirstFailing]).message

\* new Program("SET 0 5\nset 1 7\nSET 2 1") has stopped at its third line with
\* registers [5] [7].
C21_Witness ==
    /\ host = "Program" /\ mode = "done"
    /\ input = <<<<"S", "E", "T", " ", "0", " ", "5">>, <<"s", "e", "t", " ", "1", " ", "7">>, <<"S", "E", "T", " ", "2", " ", "1">>>>
    /\ registers = <<5, 7>>
    /\ output[Len(output)] = <<"E", "R", "R", "O", "R", ":", " ", "I", "n", "p", "u", "t", " ", "o", "u", "t", "s", "i", "d", "e", " ", "v", "a", "l", "i", "d", " ", "r", "a", "n", "g", "e">>

\* C22 (as claimed): when new Program(text) has returned, the output holds one
\* entry for each processed line and then one status entry: k + 1 entries after k
\* lines that all succeed, and after a first failure at line j the entries of the
\* j - 1 lines before it followed by the ERROR entry.
C22_OutputEntryPerLine ==
    (host = "Program" /\ mode = "done") =>
        /\ FailingIndices = {} => Len(output) = Len(input) + 1
        /\ FailingIndices # {} =>
              /\ Len(output) = (FirstFailing - 1) + 1
              /\ StartsWith(output[Len(output)], ERROR)

-----------------------------------------------------------------------------
(* Properties of the assembler's syntax. *)

\* The fragments of s between white space characters (tabs included), the empty
\* ones dropped.
RECURSIVE WhiteSpaceFragments(_)
WhiteSpaceFragments(s) ==
    IF s = <<>> THEN <<>>
    ELSE IF Head(s) \in WhiteSpace THEN WhiteSpaceFragments(Tail(s))
    ELSE LET n == CHOOSE k \in 1..Len(s) :
                      /\ \A i \in 1..k : s[i] \notin WhiteSpace
                      /\ k < Len(s) => s[k + 1] \in WhiteSpace
         IN  <<SubSeq(s, 1, n)>> \o WhiteSpaceFragments(SubSeq(s, n + 1, Len(s)))

\* The positions of "#" in text.
Hashes(text) == {i \in 1..Len(text) : text[i] = "#"}
FirstHash(text) == CHOOSE i \in Hashes(text) : \A j \in Hashes(text) : i <= j

\* C23 (as claimed): tokenizeLine(text) splits the text before the first "#" on
\* white space, tabs included, and drops the empty fragments; the keyword is the
\* first fragment in upper case (null when there is none), the operands are the
\* other fragments as written and in order; the comment is the text after the
\* first "#" without the white space around it, null when there is no "#".
C23_TokenizeLineSplitsOnWhiteSpace ==
    lastOp = "tokenizeLine" =>
        LET text == arg.text
            code == IF Hashes(text) = {} THEN text
                    ELSE SubSeq(text, 1, FirstHash(text) - 1)
            fragments == WhiteSpaceFragments(code)
        IN  /\ returned.keyword =
                  (IF fragments = <<>> THEN NullString ELSE toUpperCase(Head(fragments)))
            /\ returned.operands = (IF fragments = <<>> THEN <<>> ELSE Tail(fragments))
            /\ returned.comment =
                  (IF Hashes(text) = {} THEN NullString
                   ELSE trim(SubSeq(text, FirstHash(text) + 1, Len(text))))

\* s has no character that is not white space.
AllWhiteSpace(s) == \A i \in 1..Len(s) : s[i] \in WhiteSpace

\* C24 (as claimed): assembleStatement(text) returns null exactly when text is
\* empty or all white space; when text has a "#" and only white space before it
\* (a text that is only "#", or "#" followed by spaces, included) it returns a
\* statement whose instruction is null and that has no operands.
C24_NullOnlyForBlankLines ==
    lastOp = "assembleStatement" =>
        /\ returned = Return(Null) <=> AllWhiteSpace(arg.text)
        /\ (Hashes(arg.text) # {}
               /\ AllWhiteSpace(SubSeq(arg.text, 1, FirstHash(arg.text) - 1))) =>
              /\ ~returned.threw
              /\ returned.value # Null
              /\ returned.value.instruction = Null
              /\ returned.value.operands = <<>>

\* C25: getInstruction(keyword) on a language returns the registered instruction
\* whose keyword has exactly the characters of the argument, letter case
\* included, and throws Unknown instruction for every other argument, the empty
\* string, null and undefined among them; the same instruction is returned
\* whatever the order in which the instructions were registered.
C25_GetInstructionExactMatch ==
    lastOp = "getInstruction" =>
        LET registered == {arg.specs[i] : i \in DOMAIN arg.specs}
            named == {s \in registered : s.keyword = arg.keyword}
        IN  /\ named = {} => returned = Throw(unknownInstruction)
            /\ named # {} => ~returned.threw /\ returned.value \in named
            /\ arg.keyword \in {<<>>, NullString, UndefinedString, <<"a", "d", "d">>, <<"a", "D", "d">>} =>
                  returned = Throw(unknownInstruction)
            /\ \A other \in InstructionLists :
                  {other[i] : i \in DOMAIN other} = registered =>
                      returned = getInstruction(AssemblyLanguage(other), arg.keyword)

\* getInstruction("ADD") has returned the ADD instruction from the language that
\* registers ADD before SET.
C25_Witness ==
    /\ lastOp = "getInstruction"
    /\ arg.keyword = <<"A", "D", "D">>
    /\ Len(arg.specs) = 2 /\ arg.specs[1] = AssemblyInstruction_addRegisters
    /\ returned = Return(AssemblyInstruction_addRegisters)

-----------------------------------------------------------------------------
(* Properties of the statement list and the program counter. *)

\* C26: whatever the last call made on a Machine was (append, step, run up to
\* any of its iterations, setPC, a line of a REPL or of a Program), the statement
\* list is the list the call found with the appended statements after it:
\* instructionCount has not decreased and the statement at every index the list
\* had is the same statement. No call takes away, reorders or replaces a stored
\* statement.
C26_StatementsOnlyGrow ==
    /\ instructionCount(before) <= instructionCount(Machine)
    /\ \A i \in 1..Len(before.statements) : statements[i] = before.statements[i]
    /\ lastOp # "append" => statements = before.statements

\* run() has executed three statements, with an effect on the registers, and
\* the three are still stored.
C26_Witness ==
    /\ host = "Machine" /\ lastOp = "run" /\ mode = "idle"
    /\ before.pc = 0 /\ pc = 3
    /\ Len(before.statements) = 3
    /\ statements = before.statements
    /\ registers # before.registers

\* C27 (as claimed): in every state of a Machine, nextInstruction is null exactly
\* when halting is true, and when halting is false nextInstruction is the
\* statement stored at index pc.
C27_NextInstructionNullIffHalting ==
    host = "Machine" =>
        /\ nextInstruction(Machine) = Null <=> halting(Machine)
        /\ ~halting(Machine) =>
              /\ nextInstruction(Machine) = statements[pc + 1]
              /\ IsNoop(statements[pc + 1]) \/ IsSET(statements[pc + 1])
                    \/ IsADD(statements[pc + 1])

\* s is a statement whose microcode is setPC.
IsJump(s) == s # Null /\ s.instruction # Null /\ s.instruction.microcode = "setPC"

\* C28: when step() executes a statement whose microcode calls setPC(v), pc is v
\* after the step, not v + 1 and not the old pc + 1 (the increment is made
\* before the microcode runs), and no register or statement is changed; the
\* machine is then halting exactly when v is outside [0, instructionCount), and
\* otherwise its next instruction is the statement at index v, which the next
\* step() executes.
C28_SetPCInMicrocodeWins ==
    (mode = "idle" /\ lastOp = "step" /\ ReadyBefore
        /\ IsJump(before.statements[before.pc + 1])) =>
        LET v == before.statements[before.pc + 1].operands[1]
        IN  /\ pc = v
            /\ registers = before.registers
            /\ statements = before.statements
            /\ halting(Machine) <=> (v < 0 \/ v >= instructionCount(Machine))
            /\ ~halting(Machine) =>
                  /\ nextInstruction(Machine) = statements[v + 1]
                  /\ step(Machine).registers = Executed(registers, statements[v + 1])
                  /\ ~IsJump(statements[v + 1]) => step(Machine).pc = v + 1
                  /\ IsJump(statements[v + 1]) =>
                        step(Machine).pc = statements[v + 1].operands[1]

\* step() has executed "JMP 2" at index 0 of three statements: pc is 2, where
\* "SET 1 10" is stored, and "SET 1 10" at index 1 was not executed.
C28_Witness ==
    /\ mode = "idle" /\ lastOp = "step"
    /\ before.pc = 0 /\ Len(statements) = 3
    /\ statements[1] = Jump(2)
    /\ IsSET(statements[2]) /\ IsSET(statements[3])
    /\ pc = 2
    /\ registers = <<0, 0>>

\* C29: whenever halting is false, step() changes pc, whatever elements append
\* was given, the null of a blank line included; so a run() over statements that
\* were appended unfiltered makes at most one iteration per statement from the
\* pc it started at, and ends.
C29_StepAlwaysMovesPC ==
    host = "Machine" =>
        /\ (mode = "idle" /\ lastOp = "step" /\ ~halting(before)) => pc # before.pc
        /\ (mode = "running" /\ lastOp = "run") =>
              /\ pc = before.pc + cycles
              /\ cycles <= instructionCount(Machine)

\* m is inside a closed loop: some statement at index j jumps unconditionally to
\* an index v <= j, no statement from v to j - 1 is a jump, and pc is in v..j.
InLoop(m) ==
    \E j \in 0..(Len(m.statements) - 1) :
        /\ IsJump(m.statements[j + 1])
        /\ LET v == m.statements[j + 1].operands[1]
           IN  /\ 0 <= v /\ v <= j
               /\ \A i \in v..(j - 1) : ~IsJump(m.statements[i + 1])
               /\ v <= m.pc /\ m.pc <= j

\* C30: run() has no cycle limit. A machine whose pc is inside a loop closed by
\* an unconditional jump to the jump's own index or an earlier one is not
\* halting, and one more step() leaves it inside the loop; so a run() that
\* started there is still there after any number of iterations. run() can
\* return exactly when the machine is halting, whatever the number of
\* iterations made, and a run() that has returned did not start inside a loop.
C30_RunHasNoCycleLimit ==
    /\ InLoop(Machine) => ~halting(Machine) /\ InLoop(step(Machine))
    /\ (mode = "running" /\ InLoop(before)) => InLoop(Machine)
    /\ mode = "running" => (ENABLED RunEnd <=> halting(Machine))
    /\ (mode = "idle" /\ lastOp = "run") => halting(Machine) /\ ~InLoop(before)

\* run() on "SET 1 10", "JMP 0" has made as many iterations as the model
\* follows, more than twice the number of statements, and has not halted.
C30_Witness ==
    /\ mode = "running"
    /\ cycles = MaxCycles
    /\ cycles > 2 * instructionCount(Machine)
    /\ Len(statements) = 2
    /\ IsSET(statements[1]) /\ statements[2] = Jump(0)
    /\ registers = <<0, 10>>
    /\ pc \in {0, 1}

-----------------------------------------------------------------------------
(* Properties of setPC and of the reachable states of the Machine.          *)

\* C31: setPC(value) stores value in pc without a bounds check and changes
\* nothing else. With pc = PC_HALT (-1), whatever the statement list is, the
\* machine is halting, nextInstruction is null, step() changes nothing and the
\* loop of run() makes no iteration; step(), run() and append called on a
\* machine with pc = -1 leave pc = -1 and the machine halting, so no append makes
\* it ready.
C31_SetPCHaltAlwaysHalts ==
    host = "Machine" =>
        /\ (mode = "idle" /\ lastOp = "setPC") =>
              /\ pc = arg
              /\ registers = before.registers
              /\ statements = before.statements
              /\ halting(Machine) <=> (arg < 0 \/ arg >= instructionCount(Machine))
        /\ pc = PC_HALT =>
              /\ halting(Machine)
              /\ nextInstruction(Machine) = Null
              /\ step(Machine) = Machine
              /\ mode = "running" =>
                    (cycles = 0 /\ ENABLED RunEnd /\ ~ENABLED RunIter)
        /\ (before.pc = PC_HALT /\ lastOp \in {"step", "run", "append"}) =>
              /\ pc = PC_HALT
              /\ halting(Machine)
              /\ registers = before.registers
              /\ lastOp # "append" => statements = before.statements

\* After setPC(-1) on a machine with one statement, two more were appended: the
\* machine holds three statements and pc is still -1.
C31_Witness ==
    /\ host = "Machine" /\ mode = "idle" /\ lastOp = "append"
    /\ pcSets = 1
    /\ before.pc = PC_HALT /\ Len(before.statements) = 1
    /\ Len(statements) = 3 /\ OnlyStatements
    /\ pc = PC_HALT

\* C32: a Machine used from construction with append, step() and run() only (no
\* call of setPC), holding SET, ADD and no-op statements, has in every state
\* 0 <= pc <= instructionCount; no call decreases pc, step() moving it by at most
\* one; and the statements executed so far are the first pc of the list, once
\* each and in order: the registers are those statements applied to [0, 0].
C32_SequentialExecution ==
    (host = "Machine" /\ pcSets = 0 /\ OnlyStatements) =>
        /\ 0 <= pc /\ pc <= instructionCount(Machine)
        /\ before.pc <= pc
        /\ (mode = "idle" /\ lastOp = "step") => pc <= before.pc + 1
        /\ lastOp \in {"new", "append"} => pc = before.pc
        /\ registers = ExecutedAll(MachineNew.registers, SubSeq(statements, 1, pc))

\* "SET 1 10" was appended and stepped over, two more statements with an ADD
\* were appended and run() has returned: pc = 3, all three statements executed.
C32_Witness ==
    /\ host = "Machine" /\ pcSets = 0 /\ OnlyStatements
    /\ mode = "idle" /\ lastOp = "run"
    /\ before.pc = 1 /\ pc = 3 /\ Len(statements) = 3
    /\ before.registers = <<0, 10>>
    /\ \E i \in 2..3 : IsADD(statements[i])
    /\ registers[1] = 10

\* C33: the Machine, whether driven by append/step/run on statements that
\* assembleStatement returned, by REPL.run or by Program, has exactly
\* NUM_REGISTERS (2) registers in every state; every SET statement stored in it,
\* and every SET statement assembleStatement returns, has a register operand of
\* 0..NUM_REGISTERS - 1.
C33_RegisterFileKeepsItsSize ==
    /\ host \in {"Machine", "REPL", "Program"} =>
          /\ Len(registers) = NUM_REGISTERS
          /\ DOMAIN registers = 1..NUM_REGISTERS
          /\ \A i \in 1..Len(statements) :
                IsSET(statements[i]) =>
                    statements[i].operands[1] \in 0..(NUM_REGISTERS - 1)
    /\ (host = "Language" /\ lastOp = "assembleStatement" /\ ~returned.threw
          /\ IsSET(returned.value)) =>
          returned.value.operands[1] \in 0..(NUM_REGISTERS - 1)

\* A Program has executed "SET 1 7" and then failed on "SET 2 1": two registers.
C33_Witness ==
    /\ host = "Program" /\ mode = "done" /\ lastOp = "line"
    /\ Len(input) = 2
    /\ arg = <<"S", "E", "T", " ", "2", " ", "1">>
    /\ registers = <<0, 7>>
    /\ output = <<Program_error(inputOutsideRange)>>

-----------------------------------------------------------------------------
(* Properties of the order of validation.                                   *)

\* The error that the operand tokens of an instruction with operand data types
\* types must produce, NoError if none: the number of tokens decides first, then
\* the leftmost token that is no integer or is outside its range.
NoError == <<>>
ValidationError(types, tokens) ==
    IF Len(tokens) # Len(types) THEN invalidInstructionFormat
    ELSE LET bad == {i \in 1..Len(types) :
                        ~ReadsAsInteger(tokens[i]) \/ ~InsideRange(tokens[i], types[i])}
         IN  IF bad = {} THEN NoError
             ELSE LET first == CHOOSE i \in bad : \A j \in bad : i <= j
                  IN  IF ReadsAsInteger(tokens[first]) THEN inputOutsideRange
                      ELSE invalidInputType

\* C34: instruction.execute and assembleStatement validate in one order. A wrong
\* number of operand tokens gives Invalid instruction format whatever the tokens
\* are; with the right number, the leftmost invalid token gives the error
\* (Invalid input type if it is no integer, Input outside valid range if it is
\* one); assembleStatement reports an unregistered keyword before either; with
\* no such error nothing is reported.
C34_ValidationOrder ==
    /\ ReachedExecute =>
          LET e == ValidationError(
                       [i \in 1..Len(ExecutedInstruction.operands) |->
                           ExecutedInstruction.operands[i].dataType],
                       ExecutedTokens)
          IN  /\ e # NoError => Reported(e)
              /\ e = NoError =>
                    IF lastOp = "repl" THEN ~StartsWith(returned, ERROR)
                    ELSE output = <<>>
    /\ (lastOp = "assembleStatement" /\ Truthy(tokenizeLine(arg.text).keyword)) =>
          LET line == tokenizeLine(arg.text)
              e == ValidationError(OperandTypes(line.keyword), line.operands)
          IN  IF line.keyword \notin RegisteredKeywords
              THEN returned = Throw(unknownInstruction)
              ELSE IF e # NoError THEN returned = Throw(e)
              ELSE ~returned.threw

\* assembleStatement("SET 9 a b") has thrown Invalid instruction format: three
\* tokens for two operands, the first outside its range and the second no
\* integer.
C34_Witness ==
    /\ lastOp = "assembleStatement"
    /\ arg.text = <<"S", "E", "T", " ", "9", " ", "a", " ", "b">>
    /\ returned = Throw(invalidInstructionFormat)

-----------------------------------------------------------------------------
(* Properties relating Program and REPL.                                    *)

\* The machine after REPL.run is called with each line of lines in turn on a
\* REPL whose machine is m, and whether none of those calls returns an error.
RECURSIVE REPL_runAll(_, _)
REPL_runAll(m, lines) ==
    IF lines = <<>> THEN m
    ELSE REPL_runAll(REPL_run(m, Head(lines)).machine, Tail(lines))
RECURSIVE NoReplFailure(_, _)
NoReplFailure(m, lines) ==
    \/ lines = <<>>
    \/ /\ ~StartsWith(REPL_run(m, Head(lines)).returned, ERROR)
       /\ NoReplFailure(REPL_run(m, Head(lines)).machine, Tail(lines))

\* The keyword of line is HELP, in any letter case.
IsHelp(line) == ~tokenize(line).threw /\ tokenize(line).value.keyword = HELP

\* C35 (as claimed): Program and REPL agree on every line. A line that Program
\* runs on a machine fails exactly when REPL.run of that line on the same
\* machine returns an error, the REPL's message being the Program's entry with a
\* period after it, and a line that succeeds leaves the same machine; lines of
\* which none fails in the REPL end a Program with HALT and with the registers
\* the REPL is left with.
C35_ProgramAndReplAgree ==
    host = "Program" =>
        /\ lastOp = "line" =>
              /\ mode = "done" <=> StartsWith(REPL_run(before, arg).returned, ERROR)
              /\ mode = "done" =>
                    REPL_run(before, arg).returned = output[Len(output)] \o <<".">>
              /\ REPL_run(before, arg).machine = Machine
        /\ (mode = "done" /\ NoReplFailure(MachineNew, input)) =>
              /\ output = <<HALT>>
              /\ registers = REPL_runAll(MachineNew, input).registers

\* C35 (amended): Program and REPL agree on every line whose keyword is not HELP:
\* such a line fails in Program exactly when REPL.run of it on the same machine
\* returns an error, with the same message apart from the REPL's period, and
\* otherwise leaves the same machine; lines without HELP end a Program with HALT
\* exactly when none fails in the REPL, with the REPL's registers. A line with
\* the keyword HELP fails in Program with Unknown instruction while the REPL
\* returns its help text, both leaving the machine as it was.
C35_ProgramAndReplAgreeExceptHelp ==
    host = "Program" =>
        /\ (lastOp = "line" /\ ~IsHelp(arg)) =>
              /\ mode = "done" <=> StartsWith(REPL_run(before, arg).returned, ERROR)
              /\ mode = "done" =>
                    REPL_run(before, arg).returned = output[Len(output)] \o <<".">>
              /\ REPL_run(before, arg).machine = Machine
        /\ (lastOp = "line" /\ IsHelp(arg)) =>
              /\ mode = "done"
              /\ output = <<Program_error(unknownInstruction)>>
              /\ REPL_run(before, arg).returned = helpText
              /\ REPL_run(before, arg).machine = before
              /\ Machine = before
        /\ (mode = "done" /\ \A i \in 1..Len(input) : ~IsHelp(input[i])) =>
              /\ NoReplFailure(MachineNew, input) <=> output = <<HALT>>
              /\ NoReplFailure(MachineNew, input) =>
                    registers = REPL_runAll(MachineNew, input).registers

\* new Program("SET 0 5\nset 1 7\nADD") has ended with HALT and registers
\* [12] [7], as three calls of REPL.run leave them.
C35_Witness ==
    /\ host = "Program" /\ mode = "done"
    /\ input = <<<<"S", "E", "T", " ", "0", " ", "5">>, <<"s", "e", "t", " ", "1", " ", "7">>, <<"A", "D", "D">>>>
    /\ output = <<HALT>>
    /\ registers = <<12, 7>>
    /\ REPL_runAll(MachineNew, input).registers = <<12, 7>>

\* The indices of the empty lines of this.input, and the first of them.
EmptyIndices == {i \in 1..Len(input) : input[i] = <<>>}
FirstEmpty == CHOOSE i \in EmptyIndices : \A j \in EmptyIndices : i <= j

=============================================================================
